---- MODULE Spec2Model ----
(***************************************************************************)
(* Model of the Pokemon reference/quiz web application:                    *)
(*   - the type registry (src/lib/pokemonTypes.ts),                        *)
(*   - the guesser page (src/app/guesser/page.tsx): random creature        *)
(*     selection, effectiveness calculation, type selection and scoring,   *)
(*   - the detail page (src/app/pokedex/[pokemonName]/page.tsx): the       *)
(*     expiring detail cache, the page load, the effectiveness table with  *)
(*     the levitate override, and the neighbour preload,                   *)
(*   - the Pokedex list page (src/app/pokedex/page.tsx): the batch loader, *)
(*     the search filter and the persisted complete list,                  *)
(*   - the Pokedex provider (src/contexts/PokedexContext.tsx): the         *)
(*     persisted minimal list.                                             *)
(*                                                                         *)
(* Multipliers are products of factors from {0, 0.5, 1, 2}.  They are      *)
(* represented exactly as [z, e]: z = TRUE is the number 0, z = FALSE is   *)
(* the number 2^e.                                                         *)
(***************************************************************************)
EXTENDS Integers, Sequences, FiniteSets, TLC

VARIABLES
    route,                    \* the page component that is mounted
    now,                      \* Date.now(), in milliseconds
    ticks,                    \* number of clock advances so far
    guesser,                  \* useState cells of PokemonGuesserPage
    games,                    \* locals of each startNewGame invocation
    currentPokemonIdentifier, \* params.pokemonName of PokemonDetailPage
    effectPending,            \* the load effect is scheduled and has not run
    detail,                   \* useState cells of PokemonDetailPage
    preloadInitiatedRef,      \* preloadInitiatedRef.current
    pokemonDataCache,         \* module-level Map<string, CachedPokemonData>
    loads,                    \* locals of each loadCurrentPokemonAndPreloadNeighbors invocation
    preloads,                 \* preload detail fetches in flight
    calls,                    \* invocations of fetchPokemonDataByNameOrId made by a direct caller
    listPage,                 \* useState cells and the ref of PokedexListPage
    listEffects,              \* effects of PokedexListPage that are scheduled and have not run
    listLoads,                \* locals of each loadAllSequentially invocation
    localStorage,             \* window.localStorage, by key
    context,                  \* useState cells of PokedexProvider
    minimalLoads,             \* locals of each fetchMinimalPokemonList invocation
    background,               \* useState cell and pending fetches of AnimatedPokemonBackground
    header                    \* useState cells of SiteHeader and the dependencies its effect last ran with

vars == <<route, now, ticks, guesser, games, currentPokemonIdentifier,
          effectPending, detail, preloadInitiatedRef, pokemonDataCache,
          loads, preloads, calls, listPage, listEffects, listLoads,
          localStorage, context, minimalLoads, background, header>>

guesserVars == <<guesser, games>>
pageVars == <<currentPokemonIdentifier, effectPending, detail,
              preloadInitiatedRef, loads, preloads>>
detailVars == <<pageVars, pokemonDataCache, calls>>
listVars == <<listPage, listEffects, listLoads, localStorage, context, minimalLoads>>
layoutVars == <<background, header>>

(***************************************************************************)
(* Bounds of the model.                                                    *)
(***************************************************************************)
NumRelTypes == 2      \* attacking types that may occur in a relation record
NumClickTypes == 3    \* type chips the learner clicks on
MaxGames == 2         \* startNewGame invocations per behaviour
NumIdentifiers == 3   \* identifiers the visitor navigates to
MaxLoads == 2         \* detail page loads per behaviour
MaxTicks == 2         \* clock advances per behaviour
MaxCalls == 3         \* direct calls of fetchPokemonDataByNameOrId per behaviour
ApiCount == 4         \* creatures the remote API lists
POKEMON_PER_BATCH == 2          \* limit of one batch request (100 in the source)
TOTAL_POKEMON_TARGET == 3       \* length at which the list load stops (1025 in the source)
TOTAL_POKEMON_FOR_SEARCH == 3   \* limit of the minimal list request (1025 in the source)
MaxListLoads == 3     \* loadAllSequentially / fetchMinimalPokemonList invocations per behaviour
NumSearchTerms == 3   \* search terms the visitor types

(***************************************************************************)
(* Program constants.                                                      *)
(***************************************************************************)
CACHE_EXPIRY_MS == 5 * 60 * 1000
MAX_POKEMON_ID_FOR_NAV == 1025
MaxAttempts == 5
CACHE_DURATION_MS == 24 * 60 * 60 * 1000
CACHE_KEY_COMPLETE_LIST == "pokedex_complete_list_v2"
CACHE_KEY_MINIMAL_LIST == "pokedex_minimal_pokemon_list_v1"

null == "null"

(***************************************************************************)
(* Strings.  String.prototype.toLowerCase on the strings of the model.     *)
(***************************************************************************)
LowerCase ==
    [Normal |-> "normal", Fire |-> "fire", Water |-> "water",
     Electric |-> "electric", Grass |-> "grass", Ice |-> "ice",
     Fighting |-> "fighting", Poison |-> "poison", Ground |-> "ground",
     Flying |-> "flying", Psychic |-> "psychic", Bug |-> "bug",
     Rock |-> "rock", Ghost |-> "ghost", Dragon |-> "dragon",
     Steel |-> "steel", Dark |-> "dark", Fairy |-> "fairy",
     Levitate |-> "levitate", LEVITATE |-> "levitate",
     Bulbasaur |-> "bulbasaur", Ivysaur |-> "ivysaur",
     Pecharunt |-> "pecharunt", MissingNo |-> "missingno",
     B |-> "b", I |-> "i", V |-> "v", C |-> "c", E |-> "e", G |-> "g"]

toLowerCase(s) == IF s \in DOMAIN LowerCase THEN LowerCase[s] ELSE s

(***************************************************************************)
(* The type registry.                                                      *)
(***************************************************************************)
POKEMON_TYPES ==
    <<"Normal", "Fire", "Water", "Electric", "Grass", "Ice", "Fighting",
      "Poison", "Ground", "Flying", "Psychic", "Bug", "Rock", "Ghost",
      "Dragon", "Steel", "Dark", "Fairy">>

TypeNames == {POKEMON_TYPES[i] : i \in 1..Len(POKEMON_TYPES)}
LowerTypeNames == {toLowerCase(n) : n \in TypeNames}

(***************************************************************************)
(* Multipliers.                                                            *)
(***************************************************************************)
Zero == [z |-> TRUE, e |-> 0]
Pow2(k) == [z |-> FALSE, e |-> k]
One == Pow2(0)
Two == Pow2(1)
Half == Pow2(-1)
Quarter == Pow2(-2)
Four == Pow2(2)

Times(a, b) == IF a.z \/ b.z THEN Zero ELSE Pow2(a.e + b.e)
\* a < b as numbers
Less(a, b) == IF b.z THEN FALSE ELSE IF a.z THEN TRUE ELSE a.e < b.e
\* a >= 2
\* a variant that takes only more than 2 for super effective
AtLeastTwo_aboveTwo(a) == ~a.z /\ a.e >= 2

AtLeastTwo(a) == ~a.z /\ a.e >= 1

(***************************************************************************)
(* Relation records served by GET /type/{name}: three lists of attacking   *)
(* type names.  A list names each type at most once; the order inside a    *)
(* list is immaterial to both calculators, so each list is generated in    *)
(* one canonical order.  A type may occur in several lists of a record.    *)
(***************************************************************************)
RelOrder ==
    <<"ground", "fire", "water", "electric", "grass", "ice", "fighting",
      "poison", "flying", "psychic", "bug", "rock", "ghost", "dragon",
      "steel", "dark", "fairy", "normal">>

RelTypes == {RelOrder[i] : i \in 1..NumRelTypes}

RECURSIVE ListOf(_, _)
ListOf(c, i) ==
    IF i = 0 THEN <<>>
    ELSE ListOf(c, i - 1) \o [k \in 1..c[i] |-> RelOrder[i]]

DamageLists == {ListOf(c, NumRelTypes) : c \in [1..NumRelTypes -> 0..1]}

RelationRecords ==
    [double_damage_from : DamageLists,
     half_damage_from : DamageLists,
     no_damage_from : DamageLists]

Occurrences(list, a) == Cardinality({i \in 1..Len(list) : list[i] = a})

\* records in which every attacking type occurs at most once over the three lists
Disjoint(d) ==
    \A a \in RelTypes :
        Occurrences(d.double_damage_from, a) + Occurrences(d.half_damage_from, a)
            + Occurrences(d.no_damage_from, a) <= 1

DisjointRecords == {d \in RelationRecords : Disjoint(d)}

(***************************************************************************)
(* Guesser: the arithmetic of calculateEffectiveness.                      *)
(***************************************************************************)
\* list.some(t => t.name === name)
some(list, name) == \E i \in 1..Len(list) : list[i] = name

\* a variant that has no case for no_damage_from
currentMultiplier_withoutImmunity(defendingTypeDetail, attackingType) ==
    IF some(defendingTypeDetail.double_damage_from, toLowerCase(attackingType))
    THEN Two
    ELSE IF some(defendingTypeDetail.half_damage_from, toLowerCase(attackingType))
    THEN Half
    ELSE One

currentMultiplier(defendingTypeDetail, attackingType) ==
    IF some(defendingTypeDetail.double_damage_from, toLowerCase(attackingType))
    THEN Two
    ELSE IF some(defendingTypeDetail.half_damage_from, toLowerCase(attackingType))
    THEN Half
    ELSE IF some(defendingTypeDetail.no_damage_from, toLowerCase(attackingType))
    THEN Zero
    ELSE One

RECURSIVE finalMultiplier(_, _, _)
finalMultiplier(defendingTypesDetails, attackingType, n) ==
    IF n = 0 THEN One
    ELSE Times(finalMultiplier(defendingTypesDetails, attackingType, n - 1),
               currentMultiplier(defendingTypesDetails[n], attackingType))

calculatedEffectivenessMap(defendingTypesDetails) ==
    [t \in TypeNames |->
        finalMultiplier(defendingTypesDetails, t, Len(defendingTypesDetails))]

(***************************************************************************)
(* Detail page: the arithmetic of fetchPageSpecificDetails.                *)
(***************************************************************************)
\* list.forEach(t => effectivenessMap[t.name.toLowerCase()] *= factor)
\* (every name of a relation record is a registry name, so the key exists)
RECURSIVE forEachTimes(_, _, _, _)
forEachTimes(map, list, factor, n) ==
    IF n = 0 THEN map
    ELSE LET m == forEachTimes(map, list, factor, n - 1)
             k == toLowerCase(list[n])
         IN  IF k \in DOMAIN m
             THEN [m EXCEPT ![k] = Times(@, factor)]
             ELSE m

applyTypeDetail(map, typeDetail) ==
    LET m1 == forEachTimes(map, typeDetail.double_damage_from, Two,
                           Len(typeDetail.double_damage_from))
        m2 == forEachTimes(m1, typeDetail.half_damage_from, Half,
                           Len(typeDetail.half_damage_from))
    IN  forEachTimes(m2, typeDetail.no_damage_from, Zero,
                     Len(typeDetail.no_damage_from))

RECURSIVE effectivenessMap(_, _)
effectivenessMap(typesData, n) ==
    IF n = 0 THEN [k \in LowerTypeNames |-> One]
    ELSE applyTypeDetail(effectivenessMap(typesData, n - 1), typesData[n])

\* a variant that compares the ability name as written
hasLevitate_caseSensitive(abilities) ==
    \E i \in 1..Len(abilities) : abilities[i] = "levitate"

hasLevitate(abilities) ==
    \E i \in 1..Len(abilities) : toLowerCase(abilities[i]) = "levitate"

\* the map after the ability override
overriddenMap(map, abilities) ==
    IF hasLevitate(abilities) /\ map["ground"] # Zero
    THEN [map EXCEPT !["ground"] = Zero]
    ELSE map

\* a variant that annotates every levitating creature
abilityAnnotation_anyLevitate(map, abilities) ==
    IF hasLevitate(abilities)
    THEN "Immune to Ground due to Levitate."
    ELSE null

abilityAnnotation(map, abilities) ==
    IF hasLevitate(abilities) /\ map["ground"] # Zero
    THEN "Immune to Ground due to Levitate."
    ELSE null

\* Array.prototype.sort((a, b) => b.multiplier - a.multiplier): stable, descending
RECURSIVE insertSorted(_, _, _)
insertSorted(sorted, x, n) ==
    IF n = 0 THEN <<x>> \o sorted
    ELSE IF Less(sorted[n].multiplier, x.multiplier)
         THEN insertSorted(sorted, x, n - 1)
         ELSE SubSeq(sorted, 1, n) \o <<x>> \o SubSeq(sorted, n + 1, Len(sorted))

RECURSIVE sortDescending(_, _)
sortDescending(entries, n) ==
    IF n = 0 THEN <<>>
    ELSE LET s == sortDescending(entries, n - 1)
         IN  insertSorted(s, entries[n], Len(s))

sortedEffectiveness(map) ==
    sortDescending([i \in 1..Len(POKEMON_TYPES) |->
                       [name |-> POKEMON_TYPES[i],
                        multiplier |-> map[toLowerCase(POKEMON_TYPES[i])]]],
                   Len(POKEMON_TYPES))

(***************************************************************************)
(* Optional values (T | null) are sequences of length at most one.         *)
(***************************************************************************)
None == <<>>
Some(v) == <<v>>

\* new Map(): the map with no keys
EmptyMap == [k \in {} |-> One]

(***************************************************************************)
(* What the remote API may answer.                                         *)
(***************************************************************************)
\* the defending type lists and ability lists of the creatures served
DefTypeLists == {<<"flying">>, <<"ground", "flying">>}
AbilityLists == {<<"overgrow">>, <<"chlorophyll", "Levitate">>}

TypesResponses(n, records) ==
    {[ok |-> FALSE, details |-> <<>>]}
        \cup {[ok |-> TRUE, details |-> d] : d \in [1..n -> records]}

OkOnly(responses) == {r \in responses : r.ok}
WithSprite(responses) == {r \in responses : r.ok /\ r.data.sprite}

\* GET /pokemon/{randomId} as the guesser reads it
GuesserNoData == [name |-> "", types |-> <<>>, sprite |-> FALSE]

GuesserBody(types) ==
    [name |-> IF Len(types) = 1 THEN "tornadus" ELSE "gligar",
     types |-> types, sprite |-> TRUE]

GuesserPokemonResponses ==
    {[ok |-> FALSE, status |-> st, data |-> GuesserNoData] : st \in {404, 500, 0}}
        \cup {[ok |-> TRUE, status |-> 200, data |-> GuesserBody(t)] : t \in DefTypeLists}
        \cup {[ok |-> TRUE, status |-> 200,
               data |-> [name |-> "unown", types |-> <<"flying">>, sprite |-> FALSE]]}

\* React runs a mount effect once, or twice in a row under reactStrictMode
StrictModes == {1, 2}

(***************************************************************************)
(* Guesser page: PokemonGuesserPage.                                       *)
(***************************************************************************)
GuesserInit ==
    /\ guesser = [currentPokemon |-> None,
                  isLoading |-> TRUE,
                  error |-> null,
                  correctEffectiveness |-> EmptyMap,
                  selectedTypes |-> {},
                  typeCheckResults |-> EmptyMap,
                  showResults |-> FALSE,
                  gameWon |-> FALSE]
    /\ games = <<>>

\* the page renders its chips and buttons
guesserRendered == ~guesser.isLoading /\ guesser.error = null

\* startNewGame is invoked by the mount effect, by "Try Again" or by "New Pokemon"
startNewGameInvocable ==
    IF games = <<>> THEN TRUE
    ELSE IF guesser.isLoading THEN FALSE
    ELSE IF guesser.error # null THEN TRUE
    ELSE guesser.showResults

\* the locals of an invocation that has returned are gone
returned(game) ==
    IF game.pc = "done"
    THEN [pc |-> "done", attempts |-> 0, data |-> GuesserNoData,
          defendingTypesDetails |-> <<>>]
    ELSE game

\* startNewGame up to its first await, for each invocation its trigger makes:
\* a button runs it once, the mount effect as often as the build's React
\* runs mount effects (mountEffects: {1}, or StrictModes under reactStrictMode)
StartNewGame(mountEffects) ==
    /\ route = "/guesser"
    /\ startNewGameInvocable
    /\ guesser' = [guesser EXCEPT !.isLoading = TRUE,
                                  !.error = null,
                                  !.selectedTypes = {},
                                  !.typeCheckResults = EmptyMap,
                                  !.showResults = FALSE,
                                  !.gameWon = FALSE]
    /\ \E n \in (IF games = <<>> THEN mountEffects ELSE {1}) :
        /\ Len(games) + n <= MaxGames
        /\ games' = [g \in 1..Len(games) |-> returned(games[g])]
                        \o [k \in 1..n |-> [pc |-> "awaitPokemon", attempts |-> 0,
                                            data |-> GuesserNoData,
                                            defendingTypesDetails |-> <<>>]]
    /\ UNCHANGED <<route, now, ticks>>
    /\ UNCHANGED detailVars
    /\ UNCHANGED listVars
    /\ UNCHANGED layoutVars

\* a variant whose loop admits one attempt more
attemptFailed_oneMore(g) ==
    IF games[g].attempts + 1 <= MaxAttempts
    THEN /\ games' = [games EXCEPT ![g].attempts = @ + 1,
                                   ![g].pc = "awaitPokemon"]
         /\ UNCHANGED guesser
    ELSE /\ games' = [games EXCEPT ![g].attempts = @ + 1, ![g].pc = "done"]
         /\ guesser' = [guesser EXCEPT
                !.error = "Could not load a Pokemon after several attempts. Please try again later.",
                !.isLoading = FALSE]

\* one more failed attempt of invocation g: the loop goes round or gives up
attemptFailed(g) ==
    IF games[g].attempts + 1 < MaxAttempts
    THEN /\ games' = [games EXCEPT ![g].attempts = @ + 1,
                                   ![g].pc = "awaitPokemon"]
         /\ UNCHANGED guesser
    ELSE /\ games' = [games EXCEPT ![g].attempts = @ + 1, ![g].pc = "done"]
         /\ guesser' = [guesser EXCEPT
                !.error = "Could not load a Pokemon after several attempts. Please try again later.",
                !.isLoading = FALSE]

\* the creature fetch of invocation g settles with one of the responses
GuesserPokemonResponse(g, responses) ==
    /\ route = "/guesser"
    /\ games[g].pc = "awaitPokemon"
    /\ \E r \in responses :
        IF r.ok /\ r.data.sprite
        THEN /\ guesser' = [guesser EXCEPT !.currentPokemon = Some(r.data)]
             /\ games' = [games EXCEPT ![g].pc = "awaitTypes", ![g].data = r.data]
        ELSE attemptFailed(g)
    /\ UNCHANGED <<route, now, ticks>>
    /\ UNCHANGED detailVars
    /\ UNCHANGED listVars
    /\ UNCHANGED layoutVars

\* Promise.all over fetchTypeDetails of invocation g settles with one of the responses
GuesserTypesResponse(g, responses) ==
    /\ route = "/guesser"
    /\ games[g].pc = "awaitTypes"
    /\ \E r \in responses :
        IF r.ok
        THEN /\ guesser' = [guesser EXCEPT
                    !.correctEffectiveness = calculatedEffectivenessMap(r.details),
                    !.isLoading = FALSE]
             /\ games' = [games EXCEPT ![g].pc = "done",
                                       ![g].defendingTypesDetails = r.details]
        ELSE attemptFailed(g)
    /\ UNCHANGED <<route, now, ticks>>
    /\ UNCHANGED detailVars
    /\ UNCHANGED listVars
    /\ UNCHANGED layoutVars

ClickOrder ==
    <<"Ground", "Fire", "Normal", "Water", "Electric", "Grass", "Ice",
      "Fighting", "Poison", "Flying", "Psychic", "Bug", "Rock", "Ghost",
      "Dragon", "Steel", "Dark", "Fairy">>

ClickTypes == {ClickOrder[i] : i \in 1..NumClickTypes}

\* a variant without the early return on showResults
handleTypeClick_afterResults(typeName) ==
    /\ route = "/guesser"
    /\ guesserRendered
    /\ ~(guesser.showResults /\ ~guesser.gameWon)
    /\ guesser' = [guesser EXCEPT !.selectedTypes =
            IF typeName \in @ THEN @ \ {typeName} ELSE @ \cup {typeName}]
    /\ UNCHANGED <<route, now, ticks, games>>
    /\ UNCHANGED detailVars
    /\ UNCHANGED listVars
    /\ UNCHANGED layoutVars

handleTypeClick(typeName) ==
    /\ route = "/guesser"
    /\ guesserRendered
    /\ ~(guesser.showResults /\ ~guesser.gameWon)      \* the chip is not disabled
    /\ IF guesser.showResults
       THEN UNCHANGED guesser
       ELSE guesser' = [guesser EXCEPT !.selectedTypes =
                IF typeName \in @ THEN @ \ {typeName} ELSE @ \cup {typeName}]
    /\ UNCHANGED <<route, now, ticks, games>>
    /\ UNCHANGED detailVars
    /\ UNCHANGED listVars
    /\ UNCHANGED layoutVars

\* correctEffectiveness.get(name) || 1
effectiveness(map, name) ==
    IF name \in DOMAIN map /\ map[name] # Zero THEN map[name] ELSE One

isSuperEffective(map, name) == AtLeastTwo(effectiveness(map, name))

checkResult(map, selected, name) ==
    IF name \in selected
    THEN IF isSuperEffective(map, name) THEN "CORRECT" ELSE "INCORRECT"
    ELSE IF isSuperEffective(map, name) THEN "MISSED" ELSE "NONE"

results(map, selected) == [t \in TypeNames |-> checkResult(map, selected, t)]

allCorrectlySelected(map, selected) ==
    \A t \in TypeNames : results(map, selected)[t] \notin {"INCORRECT", "MISSED"}

anySuperEffectiveMissed(map, selected) ==
    \E t \in TypeNames : results(map, selected)[t] = "MISSED"

hasAnySuperEffectiveForCurrentPokemon(map) ==
    \E k \in DOMAIN map : AtLeastTwo(map[k])

\* a variant that asks for a selection whatever the table holds
won_needsSelection(map, selected) ==
    IF allCorrectlySelected(map, selected) /\ ~anySuperEffectiveMissed(map, selected)
    THEN Cardinality(selected) > 0
    ELSE FALSE

won(map, selected) ==
    IF allCorrectlySelected(map, selected) /\ ~anySuperEffectiveMissed(map, selected)
    THEN IF hasAnySuperEffectiveForCurrentPokemon(map)
         THEN Cardinality(selected) > 0
         ELSE TRUE
    ELSE FALSE

handleCheckAnswers ==
    /\ route = "/guesser"
    /\ guesserRendered
    /\ ~guesser.showResults                            \* the button is rendered
    /\ guesser' = [guesser EXCEPT
           !.gameWon = won(guesser.correctEffectiveness, guesser.selectedTypes),
           !.typeCheckResults = results(guesser.correctEffectiveness, guesser.selectedTypes),
           !.showResults = TRUE]
    /\ UNCHANGED <<route, now, ticks, games>>
    /\ UNCHANGED detailVars
    /\ UNCHANGED listVars
    /\ UNCHANGED layoutVars

(***************************************************************************)
(* Detail page: the remote API as the page reads it.                       *)
(***************************************************************************)
NameOfId ==
    1 :> "bulbasaur" @@ 2 :> "ivysaur" @@ 3 :> "venusaur"
      @@ 1024 :> "terapagos" @@ 1025 :> "pecharunt"

ApiIds == DOMAIN NameOfId

\* GET /pokemon/{key} resolves a name or a decimal id; 0: no such creature
IdOfKey(key) ==
    IF \E id \in ApiIds : key = NameOfId[id] \/ key = ToString(id)
    THEN CHOOSE id \in ApiIds : key = NameOfId[id] \/ key = ToString(id)
    ELSE 0

IdentifierOrder == <<"Bulbasaur", "bulbasaur", "Ivysaur", "1025", "1", "MissingNo">>
Identifiers == {IdentifierOrder[i] : i \in 1..NumIdentifiers}

NoPokemonData == [id |-> 0, name |-> "", types |-> <<>>, abilities |-> <<>>]

Profiles(typeLists, abilityLists) ==
    {[types |-> t, abilities |-> a] : t \in typeLists, a \in abilityLists}

PokemonBody(id, profile) ==
    [id |-> id, name |-> NameOfId[id],
     types |-> profile.types, abilities |-> profile.abilities]

PokemonResponses(key, profiles) ==
    {[ok |-> FALSE, data |-> NoPokemonData]}
        \cup (IF IdOfKey(key) = 0 THEN {}
              ELSE {[ok |-> TRUE, data |-> PokemonBody(IdOfKey(key), p)] : p \in profiles})

\* GET species: failure, or a record with or without an evolution chain url
SpeciesResponses ==
    {[ok |-> FALSE, url |-> FALSE], [ok |-> TRUE, url |-> TRUE], [ok |-> TRUE, url |-> FALSE]}

\* an evolution chain, read along evolves_to[0]: the number of evolves_to of each link
EvolutionChains == {<<1, 0>>, <<2, 0>>}

EvolutionResponses ==
    {[ok |-> FALSE, chain |-> <<>>]} \cup {[ok |-> TRUE, chain |-> c] : c \in EvolutionChains}

\* the type chart of the served creatures' types
TypeChart(name) ==
    IF name = "flying"
    THEN [double_damage_from |-> <<"electric", "ice", "rock">>,
          half_damage_from |-> <<"fighting", "bug", "grass">>,
          no_damage_from |-> <<"ground">>]
    ELSE IF name = "ground"
    THEN [double_damage_from |-> <<"water", "grass", "ice">>,
          half_damage_from |-> <<"poison", "rock">>,
          no_damage_from |-> <<"electric">>]
    ELSE [double_damage_from |-> <<>>, half_damage_from |-> <<>>, no_damage_from |-> <<>>]

ChartTypesResponses(types) ==
    {[ok |-> FALSE, details |-> <<>>],
     [ok |-> TRUE, details |-> [k \in 1..Len(types) |-> TypeChart(types[k])]]}

NavResponses(id) ==
    {[ok |-> FALSE, id |-> 0, name |-> ""]}
        \cup (IF id \in ApiIds THEN {[ok |-> TRUE, id |-> id, name |-> NameOfId[id]]} ELSE {})

(***************************************************************************)
(* Detail page: the expiring cache and fetchPokemonDataByNameOrId.         *)
(***************************************************************************)
has(cache, key) == key \in DOMAIN cache

\* cachedEntry && (Date.now() - cachedEntry.timestamp < CACHE_EXPIRY_MS)
\* a variant that still takes an entry of exactly the expiry age
fresh_inclusive(cache, key, t) == has(cache, key) /\ t - cache[key].timestamp <= CACHE_EXPIRY_MS

fresh(cache, key, t) == has(cache, key) /\ t - cache[key].timestamp < CACHE_EXPIRY_MS

\* what a call does before its first await: "hit" returns the cached record,
\* "skip" returns null, "fetch" issues GET /pokemon/{cacheKey}
fetchDecision(cache, t, identifier, isPreload) ==
    LET cacheKey == toLowerCase(identifier)
    IN  IF fresh(cache, cacheKey, t) THEN "hit"
        ELSE IF isPreload /\ has(cache, cacheKey) THEN "skip"
        ELSE "fetch"

cacheSet_keepFirst(cache, key, data, t) ==
    [k \in DOMAIN cache \cup {key} |->
        IF k \in DOMAIN cache THEN cache[k] ELSE [data |-> data, timestamp |-> t]]

\* pokemonDataCache.set(key, { data, timestamp: Date.now() })
cacheSet(cache, key, data, t) ==
    [k \in DOMAIN cache \cup {key} |->
        IF k = key THEN [data |-> data, timestamp |-> t] ELSE cache[k]]

(***************************************************************************)
(* Detail page: PokemonDetailPage.                                         *)
(***************************************************************************)
DetailInit(identifiers, mounted) ==
    /\ currentPokemonIdentifier \in identifiers
    /\ effectPending = mounted
    /\ detail = [pokemonData |-> None,
                 evolutionChain |-> None,
                 hasMultipleEvoPaths |-> FALSE,
                 typeEffectiveness |-> None,
                 isLoading |-> TRUE,
                 error |-> null,
                 prevPokemonLink |-> None,
                 nextPokemonLink |-> None,
                 abilityEffectOnGround |-> null]
    /\ preloadInitiatedRef = FALSE
    /\ pokemonDataCache = [k \in {} |-> [data |-> NoPokemonData, timestamp |-> 0]]
    /\ loads = <<>>
    /\ preloads = {}
    /\ calls = <<>>

\* the visitor follows a link to another creature: the load effect is scheduled
Navigate(identifier) ==
    /\ route = "/pokedex/[pokemonName]"
    /\ ~effectPending
    /\ Len(loads) < MaxLoads
    /\ identifier # currentPokemonIdentifier
    /\ currentPokemonIdentifier' = identifier
    /\ effectPending' = TRUE
    /\ UNCHANGED <<route, now, ticks, detail, preloadInitiatedRef,
                   pokemonDataCache, loads, preloads, calls>>
    /\ UNCHANGED guesserVars
    /\ UNCHANGED listVars
    /\ UNCHANGED layoutVars

\* fetchPokemonNavInfoById returns null before any fetch
navOutOfRange(id) == id <= 0 \/ id > MAX_POKEMON_ID_FOR_NAV

prevNavFetched(id) == id > 1 /\ ~navOutOfRange(id - 1)
nextNavFetched(id) == id < MAX_POKEMON_ID_FOR_NAV /\ ~navOutOfRange(id + 1)

pcAfterPrev(id) == IF nextNavFetched(id) THEN "awaitNextNav" ELSE "done"
pcAfterDetails(id) == IF prevNavFetched(id) THEN "awaitPrevNav" ELSE pcAfterPrev(id)

\* the tail of loadCurrentPokemonAndPreloadNeighbors once pc is reached
\* with component state d: at "done", preloadInitiatedRef and setIsLoading(false)
proceed(i, run, pc, d) ==
    /\ loads' = [loads EXCEPT ![i] = [run EXCEPT !.pc = pc]]
    /\ detail' = IF pc = "done" THEN [d EXCEPT !.isLoading = FALSE] ELSE d
    /\ preloadInitiatedRef' = IF pc = "done" THEN TRUE ELSE preloadInitiatedRef

\* fetchPageSpecificDetails has returned with component state d:
\* both links are reset and the neighbours are looked up
afterDetails(i, run, d) ==
    proceed(i, run, pcAfterDetails(run.fetchedPokemonData.id),
            [d EXCEPT !.prevPokemonLink = None, !.nextPokemonLink = None])

\* a variant whose catch block keeps the failure to itself
detailsFailed_silent(i, what) == afterDetails(i, loads[i], detail)

\* the catch block of fetchPageSpecificDetails
detailsFailed(i, what) ==
    afterDetails(i, loads[i],
                 [detail EXCEPT !.error = "Failed to load some details: " \o what])

\* the locals of a load that has returned are gone
returnedLoad(run) ==
    IF run.pc = "done"
    THEN [pc |-> "done", identifier |-> "", log |-> "",
          fetchedPokemonData |-> NoPokemonData, typesData |-> <<>>]
    ELSE run

earlierLoads == [i \in 1..Len(loads) |-> returnedLoad(loads[i])]

\* the effect runs loadCurrentPokemonAndPreloadNeighbors up to its first fetch
LoadCurrentPokemonAndPreloadNeighbors ==
    /\ route = "/pokedex/[pokemonName]"
    /\ effectPending
    /\ effectPending' = FALSE
    /\ currentPokemonIdentifier # ""
    /\ preloadInitiatedRef' = FALSE
    /\ LET identifier == toLowerCase(currentPokemonIdentifier)
           decision == fetchDecision(pokemonDataCache, now, identifier, FALSE)
           d == [detail EXCEPT !.isLoading = TRUE, !.error = null]
       IN  IF decision = "hit"
           THEN LET data == pokemonDataCache[toLowerCase(identifier)].data
                IN  /\ detail' = [d EXCEPT !.pokemonData = Some(data)]
                    /\ loads' = Append(earlierLoads,
                                       [pc |-> "awaitSpecies",
                                        identifier |-> currentPokemonIdentifier,
                                        log |-> "[Cache HIT]",
                                        fetchedPokemonData |-> data,
                                        typesData |-> <<>>])
           ELSE /\ detail' = d
                /\ loads' = Append(earlierLoads,
                                   [pc |-> "awaitPokemon",
                                    identifier |-> currentPokemonIdentifier,
                                    log |-> "[Cache MISS or EXPIRED]",
                                    fetchedPokemonData |-> NoPokemonData,
                                    typesData |-> <<>>])
    /\ UNCHANGED <<route, now, ticks, currentPokemonIdentifier, pokemonDataCache,
                   preloads, calls>>
    /\ UNCHANGED guesserVars
    /\ UNCHANGED listVars
    /\ UNCHANGED layoutVars

\* a variant that returns without setIsLoading(false)
notFound_keepsLoading(i) ==
    /\ detail' = [detail EXCEPT !.error = "Pokemon not found or failed to load."]
    /\ loads' = [loads EXCEPT ![i].pc = "done"]

\* fetchPokemonDataByNameOrId has returned null to load i
notFound(i) ==
    /\ detail' = [detail EXCEPT
            !.error = "Pokemon not found or failed to load.",
            !.isLoading = FALSE]
    /\ loads' = [loads EXCEPT ![i].pc = "done"]

\* the detail fetch of load i settles with one of the responses
PokemonResponse(i, responses) ==
    /\ route = "/pokedex/[pokemonName]"
    /\ loads[i].pc = "awaitPokemon"
    /\ \E r \in responses :
        IF r.ok
        THEN /\ pokemonDataCache' = cacheSet(pokemonDataCache,
                                             toLowerCase(toLowerCase(loads[i].identifier)),
                                             r.data, now)
             /\ detail' = [detail EXCEPT !.pokemonData = Some(r.data)]
             /\ loads' = [loads EXCEPT ![i].pc = "awaitSpecies",
                                       ![i].fetchedPokemonData = r.data]
        ELSE /\ notFound(i)
             /\ UNCHANGED pokemonDataCache
    /\ UNCHANGED <<route, now, ticks, currentPokemonIdentifier, effectPending,
                   preloadInitiatedRef, preloads, calls>>
    /\ UNCHANGED guesserVars
    /\ UNCHANGED listVars
    /\ UNCHANGED layoutVars

\* the species fetch of load i settles with one of the responses
SpeciesResponse(i, responses) ==
    /\ route = "/pokedex/[pokemonName]"
    /\ loads[i].pc = "awaitSpecies"
    /\ \E r \in responses :
        IF ~r.ok
        THEN detailsFailed(i, "Species data not found")
        ELSE /\ loads' = [loads EXCEPT ![i].pc =
                             IF r.url THEN "awaitEvolution" ELSE "awaitTypes"]
             /\ UNCHANGED <<detail, preloadInitiatedRef>>
    /\ UNCHANGED <<route, now, ticks, currentPokemonIdentifier, effectPending,
                   pokemonDataCache, preloads, calls>>
    /\ UNCHANGED guesserVars
    /\ UNCHANGED listVars
    /\ UNCHANGED layoutVars

\* the walk along evolves_to[0] that looks for a link with several evolutions
multipleEvoPaths(chain) == \E k \in 1..Len(chain) : chain[k] > 1

\* the evolution chain fetch of load i settles with one of the responses
EvolutionResponse(i, responses) ==
    /\ route = "/pokedex/[pokemonName]"
    /\ loads[i].pc = "awaitEvolution"
    /\ \E r \in responses :
        IF ~r.ok
        THEN detailsFailed(i, "Evolution chain not found")
        ELSE /\ detail' = [detail EXCEPT !.evolutionChain = Some(r.chain),
                                         !.hasMultipleEvoPaths = multipleEvoPaths(r.chain)]
             /\ loads' = [loads EXCEPT ![i].pc = "awaitTypes"]
             /\ UNCHANGED preloadInitiatedRef
    /\ UNCHANGED <<route, now, ticks, currentPokemonIdentifier, effectPending,
                   pokemonDataCache, preloads, calls>>
    /\ UNCHANGED guesserVars
    /\ UNCHANGED listVars
    /\ UNCHANGED layoutVars

\* Promise.all over the type fetches of load i settles with one of the responses
TypesResponse(i, responses) ==
    /\ route = "/pokedex/[pokemonName]"
    /\ loads[i].pc = "awaitTypes"
    /\ \E r \in responses :
        IF ~r.ok
        THEN detailsFailed(i, "type data")
        ELSE LET map == effectivenessMap(r.details, Len(r.details))
                 abilities == loads[i].fetchedPokemonData.abilities
             IN  afterDetails(i, [loads[i] EXCEPT !.typesData = r.details],
                     [detail EXCEPT
                         !.abilityEffectOnGround = abilityAnnotation(map, abilities),
                         !.typeEffectiveness =
                             Some(sortedEffectiveness(overriddenMap(map, abilities)))])
    /\ UNCHANGED <<route, now, ticks, currentPokemonIdentifier, effectPending,
                   pokemonDataCache, preloads, calls>>
    /\ UNCHANGED guesserVars
    /\ UNCHANGED listVars
    /\ UNCHANGED layoutVars

\* a variant that reports the failed lookup to the view
navReturnedNull_surfaced(i, pc) ==
    proceed(i, loads[i], pc, [detail EXCEPT !.error = "Failed to load neighbor."])

\* fetchPokemonNavInfoById has returned null to load i, which goes on to pc
navReturnedNull(i, pc) == proceed(i, loads[i], pc, detail)

\* if (!pokemonDataCache.has(key)) fetchPokemonDataByNameOrId(key, true)
preloadIssued(cache, t, name) ==
    /\ ~has(cache, toLowerCase(name))
    /\ fetchDecision(cache, t, toLowerCase(name), TRUE) = "fetch"

\* the nav-info fetch of load i for the neighbour on `side` settles with a response
NavResponse(i, side) ==
    /\ route = "/pokedex/[pokemonName]"
    /\ loads[i].pc = (IF side = "prev" THEN "awaitPrevNav" ELSE "awaitNextNav")
    /\ \E r \in NavResponses(loads[i].fetchedPokemonData.id
                                + (IF side = "prev" THEN -1 ELSE 1)) :
       LET id == loads[i].fetchedPokemonData.id
           pc == IF side = "prev" THEN pcAfterPrev(id) ELSE "done"
           info == [id |-> r.id, name |-> r.name]
       IN  IF r.ok
           THEN /\ proceed(i, loads[i], pc,
                       IF side = "prev"
                       THEN [detail EXCEPT !.prevPokemonLink = Some(info)]
                       ELSE [detail EXCEPT !.nextPokemonLink = Some(info)])
                /\ preloads' =
                       IF preloadIssued(pokemonDataCache, now, r.name)
                       THEN preloads \cup {[key |-> toLowerCase(toLowerCase(r.name)),
                                            load |-> i, side |-> side]}
                       ELSE preloads
           ELSE /\ navReturnedNull(i, pc)
                /\ UNCHANGED preloads
    /\ UNCHANGED <<route, now, ticks, currentPokemonIdentifier, effectPending,
                   pokemonDataCache, calls>>
    /\ UNCHANGED guesserVars
    /\ UNCHANGED listVars
    /\ UNCHANGED layoutVars

\* a variant that shows the preloaded record on the page
PreloadResponse_showsRecord(p, responses) ==
    /\ route = "/pokedex/[pokemonName]"
    /\ p \in preloads
    /\ preloads' = preloads \ {p}
    /\ \E r \in responses :
        /\ pokemonDataCache' =
                IF r.ok THEN cacheSet(pokemonDataCache, p.key, r.data, now)
                ELSE pokemonDataCache
        /\ detail' = IF r.ok THEN [detail EXCEPT !.pokemonData = Some(r.data)] ELSE detail
    /\ UNCHANGED <<route, now, ticks, currentPokemonIdentifier, effectPending,
                   preloadInitiatedRef, loads, calls>>
    /\ UNCHANGED guesserVars
    /\ UNCHANGED listVars
    /\ UNCHANGED layoutVars

\* the preload detail fetch p settles with one of the responses
PreloadResponse(p, responses) ==
    /\ route = "/pokedex/[pokemonName]"
    /\ p \in preloads
    /\ preloads' = preloads \ {p}
    /\ \E r \in responses :
        pokemonDataCache' =
            IF r.ok THEN cacheSet(pokemonDataCache, p.key, r.data, now)
            ELSE pokemonDataCache
    /\ UNCHANGED <<route, now, ticks, currentPokemonIdentifier, effectPending,
                   detail, preloadInitiatedRef, loads, calls>>
    /\ UNCHANGED guesserVars
    /\ UNCHANGED listVars
    /\ UNCHANGED layoutVars

\* time passes
TickSteps == {1, CACHE_EXPIRY_MS - 1}

Tick(d) ==
    /\ ticks < MaxTicks
    /\ now' = now + d
    /\ ticks' = ticks + 1
    /\ UNCHANGED route
    /\ UNCHANGED guesserVars
    /\ UNCHANGED listVars
    /\ UNCHANGED layoutVars
    /\ UNCHANGED detailVars

(***************************************************************************)
(* fetchPokemonDataByNameOrId called directly, with any arguments.         *)
(***************************************************************************)
FetchPokemonDataByNameOrId(identifier, isPreload) ==
    /\ route = "fetchPokemonDataByNameOrId"
    /\ Len(calls) < MaxCalls
    /\ LET decision == fetchDecision(pokemonDataCache, now, identifier, isPreload)
       IN  calls' = Append(calls,
               [identifier |-> identifier,
                isPreload |-> isPreload,
                pc |-> IF decision = "fetch" THEN "awaitFetch" ELSE "returned",
                fetched |-> decision = "fetch",
                result |-> IF decision = "hit"
                           THEN Some(pokemonDataCache[toLowerCase(identifier)].data)
                           ELSE None])
    /\ UNCHANGED <<route, now, ticks, pokemonDataCache>>
    /\ UNCHANGED guesserVars
    /\ UNCHANGED listVars
    /\ UNCHANGED layoutVars
    /\ UNCHANGED pageVars

\* the fetch of direct call c settles with one of the responses
FetchResponse(c, responses) ==
    /\ route = "fetchPokemonDataByNameOrId"
    /\ calls[c].pc = "awaitFetch"
    /\ \E r \in responses :
        /\ calls' = [calls EXCEPT ![c].pc = "returned",
                                  ![c].result = IF r.ok THEN Some(r.data) ELSE None]
        /\ pokemonDataCache' =
               IF r.ok THEN cacheSet(pokemonDataCache, toLowerCase(calls[c].identifier),
                                     r.data, now)
               ELSE pokemonDataCache
    /\ UNCHANGED <<route, now, ticks>>
    /\ UNCHANGED guesserVars
    /\ UNCHANGED listVars
    /\ UNCHANGED layoutVars
    /\ UNCHANGED pageVars

(***************************************************************************)
(* Text of the list page.  Names and search terms are sequences of         *)
(* characters, so that String.prototype.includes is a test on subwords.    *)
(***************************************************************************)
lowerChars(chars) == [k \in 1..Len(chars) |-> toLowerCase(chars[k])]

includes(text, part) ==
    \E k \in 0..(Len(text) - Len(part)) : SubSeq(text, k + 1, k + Len(part)) = part

Digits == <<"0", "1", "2", "3", "4", "5", "6", "7", "8", "9">>

\* String(id), for id >= 0
RECURSIVE String(_)
String(id) ==
    IF id < 10 THEN <<Digits[id + 1]>>
    ELSE String(id \div 10) \o <<Digits[(id % 10) + 1]>>

\* the names the API gives to the creatures 1, 2, ... (shortened)
ListNames ==
    << <<"b", "u">>, <<"i", "v">>, <<"v", "e">>, <<"c", "h">>,
       <<"c", "m">>, <<"c", "z">>, <<"s", "q">> >>

SearchTermOrder == << <<>>, <<"V">>, <<"1">>, <<"b", "u">>, <<"x">> >>
SearchTerms == {SearchTermOrder[k] : k \in 1..NumSearchTerms}

(***************************************************************************)
(* The remote API as the list page and the provider read it.               *)
(***************************************************************************)
ApiMin(a, b) == IF a < b THEN a ELSE b

\* ids of GET /pokemon?limit=..&offset=..
ListResults(offset, limit) ==
    [k \in 1..(IF offset >= ApiCount THEN 0 ELSE ApiMin(limit, ApiCount - offset))
        |-> offset + k]

Reverse(list) == [k \in 1..Len(list) |-> list[Len(list) + 1 - k]]

\* the request fails, or lists its creatures in either order
ListResponses(offset, limit) ==
    {[ok |-> FALSE, results |-> <<>>],
     [ok |-> TRUE, results |-> ListResults(offset, limit)],
     [ok |-> TRUE, results |-> Reverse(ListResults(offset, limit))]}

\* the entry made from the detail response of creature id
SimplePokemon(id) == [id |-> id, name |-> ListNames[id]]

MembersOf(list) == {list[k] : k \in 1..Len(list)}

\* Array.prototype.sort((a, b) => a.id - b.id): stable, ascending
RECURSIVE insertById(_, _, _)
insertById(sorted, x, n) ==
    IF n = 0 THEN <<x>> \o sorted
    ELSE IF sorted[n].id > x.id
         THEN insertById(sorted, x, n - 1)
         ELSE SubSeq(sorted, 1, n) \o <<x>> \o SubSeq(sorted, n + 1, Len(sorted))

RECURSIVE sortById(_, _)
sortById(entries, n) ==
    IF n = 0 THEN <<>>
    ELSE LET head == sortById(entries, n - 1)
         IN  insertById(head, entries[n], Len(head))

(***************************************************************************)
(* window.localStorage.                                                    *)
(***************************************************************************)
StorageKeys == {CACHE_KEY_COMPLETE_LIST, CACHE_KEY_MINIMAL_LIST}

StorageInit == localStorage = [k \in StorageKeys |-> None]

getItem(key) == localStorage[key]

storedFresh_inclusive(key) ==
    /\ getItem(key) # None
    /\ now - getItem(key)[1].timestamp <= CACHE_DURATION_MS

\* the stored entry is there and Date.now() - timestamp < CACHE_DURATION_MS
storedFresh(key) ==
    /\ getItem(key) # None
    /\ now - getItem(key)[1].timestamp < CACHE_DURATION_MS

removeItem(storage, key) == [storage EXCEPT ![key] = None]

setItem(storage, key, data) ==
    [storage EXCEPT ![key] = Some([timestamp |-> now, data |-> data])]

(***************************************************************************)
(* PokedexListPage: the list page at "/".                                  *)
(***************************************************************************)
ListPageInit ==
    [allPokemon |-> <<>>, filteredPokemon |-> <<>>,
     isLoadingInitial |-> TRUE, isLoadingBackground |-> FALSE,
     error |-> null, searchTerm |-> <<>>,
     isLoadingAllPokemonRef |-> FALSE]

ProviderInit ==
    [minimalPokemonList |-> <<>>, isLoadingMinimalList |-> TRUE, searchError |-> null]

\* loadEffects, minimalEffects: the mount effects still to run
ListInit(loadEffects, minimalEffects) ==
    /\ listPage = ListPageInit
    /\ listEffects = [load |-> loadEffects, filter |-> loadEffects > 0,
                      minimal |-> minimalEffects]
    /\ listLoads = <<>>
    /\ context = ProviderInit
    /\ minimalLoads = <<>>
    /\ StorageInit

ListUnmounted == ListInit(0, 0)

\* no effect of the list page is waiting to run
effectsFlushed == listEffects.load = 0 /\ ~listEffects.filter

loadSettled(load) == load.pc \in {"skipped", "done"}

\* one call of fetchPokemonBatch as its caller saw it: the members the list
\* request named, those whose detail request succeeded, and the outcome
Batch(listOk, listed, succeeded, newBatch) ==
    [listOk |-> listOk, listed |-> listed, succeeded |-> succeeded,
     returned |-> newBatch, threw |-> ~listOk]

\* a variant that does not clear isLoadingAllPokemonRef
finish_keepsRef(l, page, list, batch) ==
    /\ listPage' = [page EXCEPT !.filteredPokemon = list,
                                !.isLoadingBackground = FALSE]
    /\ localStorage' =
            IF listLoads[l].error = null /\ Len(list) > 0
            THEN setItem(localStorage, CACHE_KEY_COMPLETE_LIST, list)
            ELSE localStorage
    /\ listLoads' = [listLoads EXCEPT ![l].pc = "done",
                                      ![l].currentPokemonList = list,
                                      ![l].results = <<>>,
                                      ![l].batch = Some(batch)]

\* the end of loadAllSequentially after the loop (193-205)
finish(l, page, list, batch) ==
    /\ listPage' = [page EXCEPT !.filteredPokemon = list,
                                !.isLoadingBackground = FALSE,
                                !.isLoadingAllPokemonRef = FALSE]
    /\ localStorage' =
            IF listLoads[l].error = null /\ Len(list) > 0
            THEN setItem(localStorage, CACHE_KEY_COMPLETE_LIST, list)
            ELSE localStorage
    /\ listLoads' = [listLoads EXCEPT ![l].pc = "done",
                                      ![l].currentPokemonList = list,
                                      ![l].results = <<>>,
                                      ![l].batch = Some(batch)]

\* a variant that asks for the same batch again
batchEmpty_retries(l) ==
    /\ listLoads' = [listLoads EXCEPT ![l].pc = "awaitList", ![l].results = <<>>]
    /\ UNCHANGED <<listPage, localStorage, listEffects>>

\* the batch came back empty: hasMoreToLoad = false (182)
batchEmpty(l) ==
    /\ finish(l, [listPage EXCEPT !.isLoadingInitial =
                        IF listLoads[l].isLoadingInitial THEN FALSE ELSE @],
              listLoads[l].currentPokemonList,
              Batch(TRUE, listLoads[l].results, {}, <<>>))
    /\ UNCHANGED listEffects

\* fetchPokemonBatch threw: setError, hasMoreToLoad = false (184-189)
batchFailed(l) ==
    /\ finish(l, [listPage EXCEPT !.error = "Error loading batch starting at offset "
                                                \o ToString(listLoads[l].currentOffset)
                                                \o ". Some Pokémon may be missing.",
                                  !.isLoadingInitial =
                                        IF listLoads[l].isLoadingInitial THEN FALSE ELSE @],
              listLoads[l].currentPokemonList,
              Batch(FALSE, <<>>, {}, <<>>))
    /\ UNCHANGED listEffects

\* the mount effect calls loadAllSequentially (141-166, 208)
LoadAllSequentially ==
    /\ route = "/"
    /\ listEffects.load > 0
    /\ Len(listLoads) < MaxListLoads
    /\ listEffects' = [listEffects EXCEPT
            !.load = @ - 1,
            !.filter = @ \/ (~listPage.isLoadingAllPokemonRef
                                /\ storedFresh(CACHE_KEY_COMPLETE_LIST))]
    \* error, isLoadingInitial: what the effect's closure holds, the values of
    \* the render that created the effect (deps [fetchPokemonBatch]: the first)
    /\ LET load == [pc |-> "awaitList", currentPokemonList |-> <<>>,
                    currentOffset |-> 0, results |-> <<>>, batch |-> None,
                    error |-> ListPageInit.error,
                    isLoadingInitial |-> ListPageInit.isLoadingInitial,
                    log |-> ""]
           page == [listPage EXCEPT !.isLoadingAllPokemonRef = TRUE,
                                    !.isLoadingInitial = TRUE,
                                    !.error = null]
       IN  IF listPage.isLoadingAllPokemonRef
           THEN /\ listLoads' = Append(listLoads, [load EXCEPT !.pc = "skipped"])
                /\ UNCHANGED <<listPage, localStorage>>
           ELSE IF storedFresh(CACHE_KEY_COMPLETE_LIST)
           THEN LET data == getItem(CACHE_KEY_COMPLETE_LIST)[1].data
                IN  /\ listPage' = [page EXCEPT !.allPokemon = data,
                                                !.filteredPokemon = data,
                                                !.isLoadingInitial = FALSE,
                                                !.isLoadingAllPokemonRef = FALSE]
                    /\ listLoads' = Append(listLoads,
                            [load EXCEPT !.pc = "done",
                                         !.currentPokemonList = data,
                                         !.log = "Loading COMPLETE Pokémon list from cache."])
                    /\ UNCHANGED localStorage
           ELSE /\ listPage' = page
                /\ localStorage' = removeItem(localStorage, CACHE_KEY_COMPLETE_LIST)
                /\ listLoads' = Append(listLoads,
                        [load EXCEPT !.log =
                            IF getItem(CACHE_KEY_COMPLETE_LIST) # None
                            THEN "Complete list cache expired."
                            ELSE "Starting sequential load of all Pokémon..."])
    /\ UNCHANGED <<route, now, ticks, context, minimalLoads>>
    /\ UNCHANGED guesserVars
    /\ UNCHANGED layoutVars
    /\ UNCHANGED detailVars

\* fetchPokemonBatch: the list request settles (104-112, 135-137)
ListResponse(l, limit) ==
    /\ route = "/"
    /\ effectsFlushed
    /\ listLoads[l].pc = "awaitList"
    /\ \E r \in ListResponses(listLoads[l].currentOffset, limit) :
            IF ~r.ok THEN batchFailed(l)
            ELSE IF Len(r.results) = 0 THEN batchEmpty(l)
            ELSE /\ listLoads' = [listLoads EXCEPT ![l].pc = "awaitMembers",
                                                   ![l].results = r.results]
                 /\ UNCHANGED <<listPage, listEffects, localStorage>>
    /\ UNCHANGED <<route, now, ticks, context, minimalLoads>>
    /\ UNCHANGED guesserVars
    /\ UNCHANGED layoutVars
    /\ UNCHANGED detailVars

fetchPokemonBatch_unsorted(listed, succeeded) ==
    LET fulfilled == SelectSeq(listed, LAMBDA id : id \in succeeded)
    IN  [k \in 1..Len(fulfilled) |-> SimplePokemon(fulfilled[k])]

\* what fetchPokemonBatch returns when the members in succeeded answered (114-134)
fetchPokemonBatch(listed, succeeded) ==
    LET fulfilled == SelectSeq(listed, LAMBDA id : id \in succeeded)
        entries == [k \in 1..Len(fulfilled) |-> SimplePokemon(fulfilled[k])]
    IN  sortById(entries, Len(entries))

\* Promise.allSettled of the member requests settles; the loop goes on (174-191)
MembersSettled(l) ==
    /\ route = "/"
    /\ effectsFlushed
    /\ listLoads[l].pc = "awaitMembers"
    /\ \E succeeded \in SUBSET MembersOf(listLoads[l].results) :
        LET newBatch == fetchPokemonBatch(listLoads[l].results, succeeded)
            joined == listLoads[l].currentPokemonList \o newBatch
            list == sortById(joined, Len(joined))
            page == [listPage EXCEPT !.allPokemon = list,
                                     !.isLoadingInitial =
                                        IF listLoads[l].isLoadingInitial THEN FALSE ELSE @]
            batch == Batch(TRUE, listLoads[l].results, succeeded, newBatch)
        IN  IF Len(newBatch) = 0 THEN batchEmpty(l)
            ELSE IF Len(list) < TOTAL_POKEMON_TARGET
            THEN /\ listPage' = [page EXCEPT !.isLoadingBackground = TRUE]
                 /\ listLoads' = [listLoads EXCEPT ![l].pc = "awaitList",
                                                   ![l].currentPokemonList = list,
                                                   ![l].currentOffset = Len(list),
                                                   ![l].results = <<>>,
                                                   ![l].batch = Some(batch)]
                 /\ listEffects' = [listEffects EXCEPT !.filter = TRUE]
                 /\ UNCHANGED localStorage
            ELSE /\ finish(l, page, list, batch)
                 /\ listEffects' = [listEffects EXCEPT !.filter = TRUE]
    /\ UNCHANGED <<route, now, ticks, context, minimalLoads>>
    /\ UNCHANGED guesserVars
    /\ UNCHANGED layoutVars
    /\ UNCHANGED detailVars

matches_caseSensitive(pokemon, lowerSearchTerm) ==
    \/ includes(pokemon.name, lowerSearchTerm)
    \/ includes(String(pokemon.id), lowerSearchTerm)

\* the entries the search keeps (216-220)
matches(pokemon, lowerSearchTerm) ==
    \/ includes(lowerChars(pokemon.name), lowerSearchTerm)
    \/ includes(String(pokemon.id), lowerSearchTerm)

filtered(list, searchTerm) ==
    IF searchTerm = <<>> THEN list
    ELSE SelectSeq(list, LAMBDA pokemon : matches(pokemon, lowerChars(searchTerm)))

\* the effect on [searchTerm, allPokemon] (211-222)
FilterEffect ==
    /\ route = "/"
    /\ listEffects.load = 0
    /\ listEffects.filter
    /\ listPage' = [listPage EXCEPT
            !.filteredPokemon = filtered(listPage.allPokemon, listPage.searchTerm)]
    /\ listEffects' = [listEffects EXCEPT !.filter = FALSE]
    /\ UNCHANGED <<route, now, ticks, listLoads, localStorage, context, minimalLoads>>
    /\ UNCHANGED guesserVars
    /\ UNCHANGED layoutVars
    /\ UNCHANGED detailVars

\* the page shows the search input, not the loading or the error screen (228-250)
inputRendered ==
    /\ ~(listPage.isLoadingInitial /\ Len(listPage.allPokemon) = 0)
    /\ ~(listPage.error # null /\ Len(listPage.allPokemon) = 0)

\* onChange of the search input (263-264)
SetSearchTerm(term) ==
    /\ route = "/"
    /\ effectsFlushed
    /\ inputRendered
    /\ term # listPage.searchTerm
    /\ listPage' = [listPage EXCEPT !.searchTerm = term]
    /\ listEffects' = [listEffects EXCEPT !.filter = TRUE]
    /\ UNCHANGED <<route, now, ticks, listLoads, localStorage, context, minimalLoads>>
    /\ UNCHANGED guesserVars
    /\ UNCHANGED layoutVars
    /\ UNCHANGED detailVars

\* the visitor comes back to the page once every load has returned: the
\* component is built anew, localStorage stays
MountListPage(effects) ==
    /\ route = "/"
    /\ effectsFlushed
    /\ listLoads # <<>>
    /\ \A l \in 1..Len(listLoads) : loadSettled(listLoads[l])
    /\ Len(listLoads) + effects <= MaxListLoads
    /\ listPage' = ListPageInit
    /\ listEffects' = [listEffects EXCEPT !.load = effects, !.filter = TRUE]
    /\ UNCHANGED <<route, now, ticks, listLoads, localStorage, context, minimalLoads>>
    /\ UNCHANGED guesserVars
    /\ UNCHANGED layoutVars
    /\ UNCHANGED detailVars

(***************************************************************************)
(* PokedexProvider: the minimal list of the header search.                 *)
(***************************************************************************)
\* the mount effect calls fetchMinimalPokemonList (29-46, 94-96)
FetchMinimalPokemonList ==
    /\ route = "PokedexProvider"
    /\ listEffects.minimal > 0
    /\ Len(minimalLoads) < MaxListLoads
    /\ listEffects' = [listEffects EXCEPT !.minimal = @ - 1]
    /\ LET started == [context EXCEPT !.isLoadingMinimalList = TRUE,
                                      !.searchError = null]
       IN  IF storedFresh(CACHE_KEY_MINIMAL_LIST)
           THEN /\ context' = [started EXCEPT
                        !.minimalPokemonList = getItem(CACHE_KEY_MINIMAL_LIST)[1].data,
                        !.isLoadingMinimalList = FALSE]
                /\ minimalLoads' = Append(minimalLoads,
                        [pc |-> "done",
                         log |-> "[PokedexContext] Loading MINIMAL Pokémon list from cache."])
                /\ UNCHANGED localStorage
           ELSE /\ context' = started
                /\ localStorage' = removeItem(localStorage, CACHE_KEY_MINIMAL_LIST)
                /\ minimalLoads' = Append(minimalLoads,
                        [pc |-> "awaitList",
                         log |-> IF getItem(CACHE_KEY_MINIMAL_LIST) # None
                                 THEN "[PokedexContext] MINIMAL list cache expired."
                                 ELSE "[PokedexContext] Fetching new MINIMAL Pokémon list from API..."])
    /\ UNCHANGED <<route, now, ticks, listPage, listLoads>>
    /\ UNCHANGED guesserVars
    /\ UNCHANGED layoutVars
    /\ UNCHANGED detailVars

\* the entry made from one result of the list request (57-68)
MinimalPokemon(id) == [id |-> id, name |-> ListNames[id]]

\* the list request of fetchMinimalPokemonList settles (48-91)
MinimalListResponse(m, limit) ==
    /\ route = "PokedexProvider"
    /\ minimalLoads[m].pc = "awaitList"
    /\ \E r \in ListResponses(0, limit) :
            IF r.ok
            THEN LET listWithDetails ==
                        [k \in 1..Len(r.results) |-> MinimalPokemon(r.results[k])]
                     list == sortById(listWithDetails, Len(listWithDetails))
                 IN  /\ context' = [context EXCEPT !.minimalPokemonList = list,
                                                   !.isLoadingMinimalList = FALSE]
                     /\ localStorage' = setItem(localStorage, CACHE_KEY_MINIMAL_LIST, list)
            ELSE /\ context' = [context EXCEPT
                        !.searchError = "Failed to fetch minimal Pokémon list for search.",
                        !.isLoadingMinimalList = FALSE]
                 /\ UNCHANGED localStorage
    /\ minimalLoads' = [minimalLoads EXCEPT ![m].pc = "done"]
    /\ UNCHANGED <<route, now, ticks, listPage, listEffects, listLoads>>
    /\ UNCHANGED guesserVars
    /\ UNCHANGED layoutVars
    /\ UNCHANGED detailVars

\* the application is opened again once every fetch has returned: the
\* provider is built anew, localStorage stays
MountProvider(effects) ==
    /\ route = "PokedexProvider"
    /\ listEffects.minimal = 0
    /\ minimalLoads # <<>>
    /\ \A m \in 1..Len(minimalLoads) : minimalLoads[m].pc = "done"
    /\ Len(minimalLoads) + effects <= MaxListLoads
    /\ context' = ProviderInit
    /\ listEffects' = [listEffects EXCEPT !.minimal = effects]
    /\ UNCHANGED <<route, now, ticks, listPage, listLoads, localStorage, minimalLoads>>
    /\ UNCHANGED guesserVars
    /\ UNCHANGED layoutVars
    /\ UNCHANGED detailVars

\* the clock of the stored lists: just short of a day in two steps
ListTickSteps == {1, CACHE_DURATION_MS - 1}

(***************************************************************************)
(* AnimatedPokemonBackground: the sprites behind the home page.            *)
(***************************************************************************)
MAX_SPRITES_ON_SCREEN == 3    \* 12 in the source
SPRITE_LIFESPAN_MS == 5       \* 10000 in the source
ADD_SPRITE_INTERVAL_MS == 2   \* 1200 in the source
MaxIntervals == 6             \* interval callbacks per behaviour

\* sprites: useState<SpriteInfo[]>([]); fetches: generateNewSprite calls
\* that have not returned
BackgroundInit == [sprites |-> <<>>, fetches |-> 0]

\* the first updater of the interval callback (460-465)
alive(list, time) ==
    SelectSeq(list, LAMBDA sprite : time - sprite.createdAt < SPRITE_LIFESPAN_MS)

\* the interval callback: both updaters, run on the time of the callback
\* (459-481)
IntervalCallback ==
    /\ route = "HomePage"
    /\ ticks < MaxIntervals
    /\ now' = now + ADD_SPRITE_INTERVAL_MS
    /\ ticks' = ticks + 1
    /\ LET prevSprites == alive(background.sprites, now')
       IN  background' = [sprites |-> prevSprites,
                          fetches |-> IF Len(prevSprites) < MAX_SPRITES_ON_SCREEN
                                      THEN background.fetches + 1
                                      ELSE background.fetches]
    /\ UNCHANGED <<route, header>>
    /\ UNCHANGED guesserVars
    /\ UNCHANGED detailVars
    /\ UNCHANGED listVars

\* generateNewSprite returns: null when the fetch failed or the creature has
\* no sprite, else a sprite made at Date.now() (392-456, 468-478)
SpriteResponses == {None, Some([createdAt |-> now])}

SpriteResponse ==
    /\ route = "HomePage"
    /\ background.fetches > 0
    /\ \E newSprite \in SpriteResponses :
            background' = [sprites |-> IF newSprite # None
                                       THEN Append(background.sprites, newSprite[1])
                                       ELSE background.sprites,
                           fetches |-> background.fetches - 1]
    /\ UNCHANGED <<route, now, ticks, header>>
    /\ UNCHANGED guesserVars
    /\ UNCHANGED detailVars
    /\ UNCHANGED listVars

(***************************************************************************)
(* SiteHeader: the search box of the header, under PokedexProvider.        *)
(***************************************************************************)
SuggestionLimit == 3    \* the end of slice(0, 10) in the source
NumHeaderTerms == 4     \* texts the visitor types into the search box

HeaderTermOrder == << <<>>, <<"E">>, <<" ">>, <<"V">>, <<"1">>, <<"x">> >>
HeaderTerms == {HeaderTermOrder[k] : k \in 1..NumHeaderTerms}

Keys == {"ArrowDown", "ArrowUp", "Enter", "Escape", "a"}

\* String.prototype.trim
RECURSIVE trim(_)
trim(chars) ==
    IF chars = <<>> THEN <<>>
    ELSE IF Head(chars) = " " THEN trim(Tail(chars))
    ELSE IF chars[Len(chars)] = " " THEN trim(SubSeq(chars, 1, Len(chars) - 1))
    ELSE chars

\* the % of JavaScript: the result has the sign of the dividend (-0 is 0)
rem(a, b) == IF a >= 0 THEN a % b ELSE 0 - ((0 - a) % b)

UpperCase == [b |-> "B", i |-> "I", v |-> "V", c |-> "C"]

toUpperCase(s) == IF s \in DOMAIN UpperCase THEN UpperCase[s] ELSE s

\* String.prototype.replace(from, to): the first occurrence only
RECURSIVE replace(_, _, _)
replace(chars, from, to) ==
    IF chars = <<>> THEN <<>>
    ELSE IF Head(chars) = from THEN <<to>> \o Tail(chars)
    ELSE <<Head(chars)>> \o replace(Tail(chars), from, to)

\* displayName as the provider makes it (PokedexContext.tsx 71)
displayName(name) == <<toUpperCase(name[1])>> \o replace(Tail(name), "-", " ")

\* the static page suggestions, names shortened (20-24)
pageSuggestionsData ==
    << [type |-> "page", name |-> <<"G", "u", "e">>, path |-> <<"/guesser">>, id |-> None],
       [type |-> "page", name |-> <<"d", "e", "x">>, path |-> <<"/pokedex">>, id |-> None],
       [type |-> "page", name |-> <<"B", "l", "a", "z", "e">>, path |-> <<"/bb2r/pokedex">>, id |-> None] >>

HeaderInit ==
    [searchTerm |-> <<>>, suggestions |-> <<>>, isSearchFocused |-> FALSE,
     activeIndex |-> -1, deps |-> None, pushed |-> None]

\* the dependencies of the suggestions effect in the current render (69)
suggestionDeps ==
    <<header.searchTerm, context.minimalPokemonList, context.isLoadingMinimalList>>

\* the suggestions effect has run for the current render
suggestionsFlushed == header.deps = Some(suggestionDeps)

\* the list the suggestions effect computes (43-67)
suggested(searchTerm, keep) ==
    LET lowerSearchTerm == lowerChars(searchTerm)
        filteredPages == SelectSeq(pageSuggestionsData,
            LAMBDA page : includes(lowerChars(page.name), lowerSearchTerm))
        found == IF ~context.isLoadingMinimalList
                 THEN SelectSeq(context.minimalPokemonList,
                        LAMBDA pokemon :
                            \/ includes(lowerChars(displayName(pokemon.name)), lowerSearchTerm)
                            \/ includes(lowerChars(pokemon.name), lowerSearchTerm)
                            \/ includes(String(pokemon.id), lowerSearchTerm))
                 ELSE <<>>
        filteredPokemon == [k \in 1..Len(found) |->
            [type |-> "pokemon", name |-> displayName(found[k].name),
             path |-> <<"/pokedex/", found[k].name>>, id |-> Some(found[k].id)]]
        all == filteredPages \o filteredPokemon
    IN  SubSeq(all, 1, IF Len(all) < keep THEN Len(all) ELSE keep)

SuggestionsEffect_keepsIndex ==
    /\ route = "PokedexProvider"
    /\ ~suggestionsFlushed
    /\ header' = [header EXCEPT
            !.suggestions = IF trim(header.searchTerm) = <<>> THEN <<>>
                            ELSE suggested(header.searchTerm, SuggestionLimit),
            !.deps = Some(suggestionDeps)]
    /\ UNCHANGED <<route, now, ticks, background>>
    /\ UNCHANGED guesserVars
    /\ UNCHANGED detailVars
    /\ UNCHANGED listVars

\* the effect on [searchTerm, minimalPokemonList, isLoadingMinimalList]
\* (36-69)
SuggestionsEffect ==
    /\ route = "PokedexProvider"
    /\ ~suggestionsFlushed
    /\ header' = [header EXCEPT
            !.suggestions = IF trim(header.searchTerm) = <<>> THEN <<>>
                            ELSE suggested(header.searchTerm, SuggestionLimit),
            !.activeIndex = -1,
            !.deps = Some(suggestionDeps)]
    /\ UNCHANGED <<route, now, ticks, background>>
    /\ UNCHANGED guesserVars
    /\ UNCHANGED detailVars
    /\ UNCHANGED listVars

\* what no handler of the header touches
HeaderFrame ==
    /\ route = "PokedexProvider"
    /\ suggestionsFlushed
    /\ UNCHANGED <<route, now, ticks, background>>
    /\ UNCHANGED guesserVars
    /\ UNCHANGED detailVars
    /\ UNCHANGED listVars

\* onChange of the search input (205)
OnChange(term) ==
    /\ HeaderFrame
    /\ term # header.searchTerm
    /\ header' = [header EXCEPT !.searchTerm = term]

\* onFocus of the search input (206)
OnFocus ==
    /\ HeaderFrame
    /\ header' = [header EXCEPT !.isSearchFocused = TRUE]

\* mousedown outside the search container (72-77)
handleClickOutside ==
    /\ HeaderFrame
    /\ header' = [header EXCEPT !.isSearchFocused = FALSE, !.activeIndex = -1]

\* the state navigateToSearchPage and handleSuggestionClick leave (82-96)
left(path) ==
    [header EXCEPT !.pushed = Some(path), !.searchTerm = <<>>, !.suggestions = <<>>,
                   !.isSearchFocused = FALSE, !.activeIndex = -1]

navigateToSearchPage(term) == left(<<"/search?q=", trim(term)>>)

handleSuggestionClick(path) == left(path)

\* handleSearchSubmit (98-113)
handleSearchSubmit ==
    LET termToSearch == trim(header.searchTerm)
    IN  IF termToSearch = <<>> THEN header
        ELSE IF header.activeIndex >= 0 /\ header.activeIndex < Len(header.suggestions)
        THEN handleSuggestionClick(header.suggestions[header.activeIndex + 1].path)
        ELSE IF /\ Len(header.suggestions) > 0
                /\ lowerChars(header.suggestions[1].name) = lowerChars(termToSearch)
        THEN handleSuggestionClick(header.suggestions[1].path)
        ELSE navigateToSearchPage(termToSearch)

\* handleKeyDown (115-154); Enter that the handler leaves alone submits the
\* form (193)
handleKeyDown(key) ==
    /\ HeaderFrame
    /\ header' =
        IF ~header.isSearchFocused \/ Len(header.suggestions) = 0
        THEN IF key = "Enter"
             THEN IF trim(header.searchTerm) # <<>>
                  THEN navigateToSearchPage(trim(header.searchTerm))
                  ELSE handleSearchSubmit
             ELSE header
        ELSE CASE key = "ArrowDown" ->
                    [header EXCEPT !.activeIndex =
                        rem(@ + 1, Len(header.suggestions))]
               [] key = "ArrowUp" ->
                    [header EXCEPT !.activeIndex =
                        rem(@ - 1 + Len(header.suggestions), Len(header.suggestions))]
               [] key = "Enter" ->
                    IF header.activeIndex >= 0 /\ header.activeIndex < Len(header.suggestions)
                    THEN handleSuggestionClick(header.suggestions[header.activeIndex + 1].path)
                    ELSE handleSearchSubmit
               [] key = "Escape" ->
                    [header EXCEPT !.searchTerm = <<>>, !.suggestions = <<>>,
                                   !.isSearchFocused = FALSE, !.activeIndex = -1]
               [] OTHER -> header

\* the clear button, shown while the search term is not empty (214-223)
ClearSearch ==
    /\ HeaderFrame
    /\ header.searchTerm # <<>>
    /\ header' = [header EXCEPT !.searchTerm = <<>>, !.suggestions = <<>>,
                                !.activeIndex = -1]

\* the suggestions list is on the page (225)
listShown ==
    /\ header.isSearchFocused
    /\ trim(header.searchTerm) # <<>>
    /\ Len(header.suggestions) > 0 \/ context.isLoadingMinimalList

\* a click on one suggestion of the list (245-251)
ClickSuggestion(index) ==
    /\ HeaderFrame
    /\ listShown
    /\ index < Len(header.suggestions)
    /\ header' = handleSuggestionClick(header.suggestions[index + 1].path)

\* a click on "Search for pages containing ..." (259-268)
ClickSearchFor ==
    /\ HeaderFrame
    /\ listShown
    /\ header' = navigateToSearchPage(header.searchTerm)

LayoutUnmounted == background = BackgroundInit /\ header = HeaderInit

(***************************************************************************)
(* Specifications.                                                         *)
(***************************************************************************)
ClockInit == now = 0 /\ ticks = 0

GuesserUnmounted == GuesserInit
DetailUnmounted == DetailInit({""}, FALSE)

OneProfile == Profiles({<<"ground", "flying">>}, {<<"chlorophyll", "Levitate">>})
AllProfiles == Profiles(DefTypeLists, AbilityLists)
TwoProfiles == Profiles({<<"ground", "flying">>}, AbilityLists)

\* The guesser page: games, selection and scoring.
InitGuesser ==
    /\ route = "/guesser"
    /\ ClockInit
    /\ LayoutUnmounted
    /\ ListUnmounted
    /\ GuesserInit
    /\ DetailUnmounted

NextGuesser ==
    \/ StartNewGame({1})
    \/ \E g \in 1..Len(games) : GuesserPokemonResponse(g, GuesserPokemonResponses)
    \/ \E g \in 1..Len(games) :
            GuesserTypesResponse(g, TypesResponses(Len(games[g].data.types), DisjointRecords))
    \/ \E t \in ClickTypes : handleTypeClick(t)
    \/ handleCheckAnswers

SpecGuesser == InitGuesser /\ [][NextGuesser]_vars

\* The detail page: loads, cache, clock and neighbour preloads.
InitDetail ==
    /\ route = "/pokedex/[pokemonName]"
    /\ ClockInit
    /\ LayoutUnmounted
    /\ ListUnmounted
    /\ GuesserUnmounted
    /\ DetailInit(Identifiers, TRUE)

NextDetail ==
    \/ \E identifier \in Identifiers : Navigate(identifier)
    \/ LoadCurrentPokemonAndPreloadNeighbors
    \/ \E i \in 1..Len(loads) :
            PokemonResponse(i, PokemonResponses(toLowerCase(loads[i].identifier), OneProfile))
    \/ \E i \in 1..Len(loads) : SpeciesResponse(i, SpeciesResponses)
    \/ \E i \in 1..Len(loads) : EvolutionResponse(i, EvolutionResponses)
    \/ \E i \in 1..Len(loads) :
            TypesResponse(i, ChartTypesResponses(loads[i].fetchedPokemonData.types))
    \/ \E i \in 1..Len(loads) : \E side \in {"prev", "next"} : NavResponse(i, side)
    \/ \E p \in preloads : PreloadResponse(p, PokemonResponses(p.key, OneProfile))
    \/ \E d \in TickSteps : Tick(d)

SpecDetail == InitDetail /\ [][NextDetail]_vars

\* Both effectiveness calculators on every creature and every relation record:
\* the guesser up to the end of calculateEffectiveness, the detail page up to
\* the end of fetchPageSpecificDetails.
InitEff ==
    /\ ClockInit
    /\ LayoutUnmounted
    /\ ListUnmounted
    /\ \/ /\ route = "/guesser"
          /\ GuesserInit
          /\ DetailUnmounted
       \/ /\ route = "/pokedex/[pokemonName]"
          /\ GuesserUnmounted
          /\ DetailInit({IdentifierOrder[1]}, TRUE)

NextEff ==
    \/ StartNewGame({1})
    \/ \E g \in 1..Len(games) : GuesserPokemonResponse(g, WithSprite(GuesserPokemonResponses))
    \/ \E g \in 1..Len(games) :
            GuesserTypesResponse(g,
                OkOnly(TypesResponses(Len(games[g].data.types), RelationRecords)))
    \/ LoadCurrentPokemonAndPreloadNeighbors
    \/ \E i \in 1..Len(loads) :
            PokemonResponse(i,
                OkOnly(PokemonResponses(toLowerCase(loads[i].identifier), AllProfiles)))
    \/ \E i \in 1..Len(loads) : SpeciesResponse(i, {[ok |-> TRUE, url |-> FALSE]})
    \/ \E i \in 1..Len(loads) :
            TypesResponse(i,
                OkOnly(TypesResponses(Len(loads[i].fetchedPokemonData.types),
                                      RelationRecords)))

SpecEff == InitEff /\ [][NextEff]_vars

\* fetchPokemonDataByNameOrId as a unit, under any caller.
InitFetch ==
    /\ route = "fetchPokemonDataByNameOrId"
    /\ ClockInit
    /\ LayoutUnmounted
    /\ ListUnmounted
    /\ GuesserUnmounted
    /\ DetailUnmounted

NextFetch ==
    \/ \E identifier \in Identifiers : \E isPreload \in BOOLEAN :
            FetchPokemonDataByNameOrId(identifier, isPreload)
    \/ \E c \in 1..Len(calls) :
            FetchResponse(c, PokemonResponses(toLowerCase(calls[c].identifier), TwoProfiles))
    \/ \E d \in TickSteps : Tick(d)

SpecFetch == InitFetch /\ [][NextFetch]_vars

\* the list page, or the provider of the header search, with localStorage
InitList ==
    /\ route \in {"/", "PokedexProvider"}
    /\ ClockInit
    /\ LayoutUnmounted
    /\ GuesserUnmounted
    /\ DetailUnmounted
    /\ \E effects \in StrictModes :
            IF route = "/" THEN ListInit(effects, 0) ELSE ListInit(0, effects)

NextList ==
    \/ LoadAllSequentially
    \/ \E l \in 1..Len(listLoads) : ListResponse(l, POKEMON_PER_BATCH)
    \/ \E l \in 1..Len(listLoads) : MembersSettled(l)
    \/ FilterEffect
    \/ \E term \in SearchTerms : SetSearchTerm(term)
    \/ \E effects \in StrictModes : MountListPage(effects)
    \/ FetchMinimalPokemonList
    \/ \E m \in 1..Len(minimalLoads) : MinimalListResponse(m, TOTAL_POKEMON_FOR_SEARCH)
    \/ \E effects \in StrictModes : MountProvider(effects)
    \/ \E d \in ListTickSteps : Tick(d)

SpecList == InitList /\ [][NextList]_vars

\* one visit of the list page, every request answered in the end and every
\* scheduled effect run
ListStep ==
    \E l \in 1..Len(listLoads) :
        \/ ListResponse(l, POKEMON_PER_BATCH)
        \/ MembersSettled(l)

InitListPage ==
    /\ route = "/"
    /\ ClockInit
    /\ LayoutUnmounted
    /\ GuesserUnmounted
    /\ DetailUnmounted
    /\ \E effects \in StrictModes : ListInit(effects, 0)

NextLoadAll ==
    \/ LoadAllSequentially
    \/ ListStep
    \/ FilterEffect

SpecLoadAll ==
    /\ InitListPage
    /\ [][NextLoadAll]_vars
    /\ WF_vars(LoadAllSequentially)
    /\ WF_vars(ListStep)
    /\ WF_vars(FilterEffect)


\* the guesser against the real type chart, every fetch it awaits settling
AttemptResponse ==
    \E g \in 1..Len(games) :
        \/ GuesserPokemonResponse(g, GuesserPokemonResponses)
        \/ GuesserTypesResponse(g, ChartTypesResponses(games[g].data.types))

NextAttempts ==
    \/ StartNewGame({1})
    \/ AttemptResponse
    \/ \E t \in ClickTypes : handleTypeClick(t)
    \/ handleCheckAnswers

SpecAttempts == InitGuesser /\ [][NextAttempts]_vars /\ WF_vars(AttemptResponse)

\* the same page in a build with reactStrictMode (next.config.ts)
NextStrict ==
    \/ StartNewGame(StrictModes)
    \/ AttemptResponse
    \/ \E t \in ClickTypes : handleTypeClick(t)
    \/ handleCheckAnswers

SpecStrict == InitGuesser /\ [][NextStrict]_vars

\* one load of the detail page against the real type chart
PageResponse ==
    \E i \in 1..Len(loads) :
        \/ PokemonResponse(i, PokemonResponses(toLowerCase(loads[i].identifier), OneProfile))
        \/ SpeciesResponse(i, SpeciesResponses)
        \/ EvolutionResponse(i, EvolutionResponses)
        \/ TypesResponse(i, ChartTypesResponses(loads[i].fetchedPokemonData.types))

NeighbourResponse ==
    \/ \E i \in 1..Len(loads) : \E side \in {"prev", "next"} : NavResponse(i, side)
    \/ \E p \in preloads : PreloadResponse(p, PokemonResponses(p.key, OneProfile))

NextLoad ==
    \/ LoadCurrentPokemonAndPreloadNeighbors
    \/ PageResponse
    \/ NeighbourResponse

\* one load whose own requests are always answered in the end, while the
\* requests for its neighbours may stay unanswered
SpecLoadFair ==
    /\ InitDetail
    /\ [][NextLoad]_vars
    /\ WF_vars(LoadCurrentPokemonAndPreloadNeighbors)
    /\ WF_vars(PageResponse)

\* either page, with every fetch free to fail
InitPages == InitGuesser \/ InitDetail

NextPages == NextAttempts \/ NextLoad

SpecPages == InitPages /\ [][NextPages]_vars

\* the home page: the interval of the background and its sprite fetches
InitBackground ==
    /\ route = "HomePage"
    /\ ClockInit
    /\ LayoutUnmounted
    /\ ListUnmounted
    /\ GuesserUnmounted
    /\ DetailUnmounted

NextBackground ==
    \/ IntervalCallback
    \/ SpriteResponse

SpecBackground == InitBackground /\ [][NextBackground]_vars

\* the header search under the provider of the minimal list
InitHeader ==
    /\ route = "PokedexProvider"
    /\ ClockInit
    /\ LayoutUnmounted
    /\ GuesserUnmounted
    /\ DetailUnmounted
    /\ \E effects \in StrictModes : ListInit(0, effects)

NextHeader ==
    \/ FetchMinimalPokemonList
    \/ \E m \in 1..Len(minimalLoads) : MinimalListResponse(m, TOTAL_POKEMON_FOR_SEARCH)
    \/ SuggestionsEffect
    \/ \E term \in HeaderTerms : OnChange(term)
    \/ OnFocus
    \/ handleClickOutside
    \/ \E key \in Keys : handleKeyDown(key)
    \/ ClearSearch
    \/ \E index \in 0..(SuggestionLimit - 1) : ClickSuggestion(index)
    \/ ClickSearchFor

SpecHeader == InitHeader /\ [][NextHeader]_vars

(***************************************************************************)
(* Vocabulary of the properties.                                           *)
(***************************************************************************)
SixValues == {Zero, Quarter, Half, One, Two, Four}

Members(list) == {list[k] : k \in 1..Len(list)}

\* the factor one defending type contributes, by the first list that names a
PerTypeFactor(d, a) ==
    IF a \in Members(d.double_damage_from) THEN Two
    ELSE IF a \in Members(d.half_damage_from) THEN Half
    ELSE IF a \in Members(d.no_damage_from) THEN Zero
    ELSE One

RECURSIVE ProductOfFactors(_, _, _)
ProductOfFactors(details, a, n) ==
    IF n = 0 THEN One
    ELSE Times(ProductOfFactors(details, a, n - 1), PerTypeFactor(details[n], a))

\* the multiplicative combination of everything the lists say about a
ListsFactor(d, a) ==
    Times(IF a \in Members(d.double_damage_from) THEN Two ELSE One,
          Times(IF a \in Members(d.half_damage_from) THEN Half ELSE One,
                IF a \in Members(d.no_damage_from) THEN Zero ELSE One))

RECURSIVE CombinedProduct(_, _, _)
CombinedProduct(details, a, n) ==
    IF n = 0 THEN One
    ELSE Times(CombinedProduct(details, a, n - 1), ListsFactor(details[n], a))

AllDisjoint(details) == \A k \in 1..Len(details) : Disjoint(details[k])

\* the guesser has stored the table of invocation g
GuesserCalculated(g) == games[g].pc = "done" /\ games[g].defendingTypesDetails # <<>>

\* load i has stored its table, and it is the table on display
DetailCalculated(i) ==
    /\ loads[i].typesData # <<>>
    /\ Len(loads) = i
    /\ detail.typeEffectiveness # None

DisplayedTable == detail.typeEffectiveness[1]

EntriesOf(table, name) == {k \in 1..Len(table) : table[k].name = name}

MultiplierOf(table, name) == table[CHOOSE k \in EntriesOf(table, name) : TRUE].multiplier

OneEntryPerType(table) ==
    /\ Len(table) = 18
    /\ \A t \in TypeNames : Cardinality(EntriesOf(table, t)) = 1

LoadHasLevitate(i) ==
    \E k \in 1..Len(loads[i].fetchedPokemonData.abilities) :
        loads[i].fetchedPokemonData.abilities[k] \in {"levitate", "Levitate", "LEVITATE"}

(***************************************************************************)
(* C1.  For a creature with one or two defending types and relation        *)
(* records that name each attacking type at most once over their three     *)
(* lists, both calculators give exactly one multiplier to each of the 18   *)
(* registry types, it is the product over the defending types of the       *)
(* per-type factor from {0, 0.5, 1, 2}, and so it is one of 0, 0.25, 0.5,  *)
(* 1, 2, 4.  (On the detail page the stored ground entry of a levitating   *)
(* creature is the overridden one, which C3 covers.)                       *)
(***************************************************************************)
C1_ProductOfFactors ==
    /\ \A g \in 1..Len(games) :
        (GuesserCalculated(g) /\ AllDisjoint(games[g].defendingTypesDetails)
            /\ Len(games[g].defendingTypesDetails) \in {1, 2})
        => /\ DOMAIN guesser.correctEffectiveness = TypeNames
           /\ Cardinality(DOMAIN guesser.correctEffectiveness) = 18
           /\ \A t \in TypeNames :
                /\ guesser.correctEffectiveness[t] =
                       ProductOfFactors(games[g].defendingTypesDetails, toLowerCase(t),
                                        Len(games[g].defendingTypesDetails))
                /\ guesser.correctEffectiveness[t] \in SixValues
    /\ \A i \in 1..Len(loads) :
        (DetailCalculated(i) /\ AllDisjoint(loads[i].typesData)
            /\ Len(loads[i].typesData) \in {1, 2})
        => /\ OneEntryPerType(DisplayedTable)
           /\ \A t \in TypeNames :
                /\ MultiplierOf(DisplayedTable, t) \in SixValues
                /\ (t = "Ground" /\ LoadHasLevitate(i))
                    \/ MultiplierOf(DisplayedTable, t) =
                           ProductOfFactors(loads[i].typesData, toLowerCase(t),
                                            Len(loads[i].typesData))

\* the guesser has scored a two-type creature at 4 for ground and 0.25 for fire
C1_Witness ==
    \E g \in 1..Len(games) :
        /\ GuesserCalculated(g)
        /\ Len(games[g].defendingTypesDetails) = 2
        /\ AllDisjoint(games[g].defendingTypesDetails)
        /\ guesser.correctEffectiveness["Ground"] = Four
        /\ guesser.correctEffectiveness["Fire"] = Quarter

(***************************************************************************)
(* C2.  For every attacking type, every defending type and any relation    *)
(* record, also one that names the attacking type in several lists, the    *)
(* factor the defending type contributes is 2 if double_damage_from names  *)
(* it, else 0.5 if half_damage_from does, else 0 if no_damage_from does,   *)
(* else 1, in both calculators.                                            *)
(***************************************************************************)
C2_FirstListDecides ==
    /\ \A g \in 1..Len(games) :
        GuesserCalculated(g)
        => \A t \in TypeNames :
                guesser.correctEffectiveness[t] =
                    ProductOfFactors(games[g].defendingTypesDetails, toLowerCase(t),
                                     Len(games[g].defendingTypesDetails))
    /\ \A i \in 1..Len(loads) :
        DetailCalculated(i)
        => \A t \in TypeNames :
                (t = "Ground" /\ LoadHasLevitate(i))
                    \/ MultiplierOf(DisplayedTable, t) =
                           ProductOfFactors(loads[i].typesData, toLowerCase(t),
                                            Len(loads[i].typesData))

(***************************************************************************)
(* C3.  On the detail page the ability override acts on the combined       *)
(* multipliers: with levitate (in any letter case) and a nonzero combined  *)
(* ground multiplier, the final ground multiplier is 0 and                 *)
(* abilityEffectOnGround is set; without levitate every final multiplier   *)
(* is the combined one and abilityEffectOnGround is null; no multiplier    *)
(* other than ground's is changed.                                         *)
(***************************************************************************)
C3_OverrideAfterCombination ==
    \A i \in 1..Len(loads) :
        DetailCalculated(i)
        => LET combined(t) == CombinedProduct(loads[i].typesData, toLowerCase(t),
                                              Len(loads[i].typesData))
           IN  /\ (LoadHasLevitate(i) /\ combined("Ground") # Zero)
                    => /\ MultiplierOf(DisplayedTable, "Ground") = Zero
                       /\ detail.abilityEffectOnGround # null
               /\ ~LoadHasLevitate(i)
                    => /\ \A t \in TypeNames : MultiplierOf(DisplayedTable, t) = combined(t)
                       /\ detail.abilityEffectOnGround = null
               /\ \A t \in TypeNames \ {"Ground"} :
                        MultiplierOf(DisplayedTable, t) = combined(t)

\* a creature whose ability is spelled "Levitate" and that takes 2x from ground
C3_Witness ==
    \E i \in 1..Len(loads) :
        /\ DetailCalculated(i)
        /\ "Levitate" \in Members(loads[i].fetchedPokemonData.abilities)
        /\ CombinedProduct(loads[i].typesData, "ground", Len(loads[i].typesData)) = Two
        /\ MultiplierOf(DisplayedTable, "Ground") = Zero
        /\ detail.abilityEffectOnGround # null

(***************************************************************************)
(* C4.  For a creature with levitate whose defending type flying has a     *)
(* relation record that names ground in no_damage_from, the final ground   *)
(* multiplier is 0 and abilityEffectOnGround is present (non-null).        *)
(***************************************************************************)
LevitatingFlier(i) ==
    /\ DetailCalculated(i)
    /\ LoadHasLevitate(i)
    /\ \E k \in 1..Len(loads[i].typesData) :
        /\ loads[i].fetchedPokemonData.types[k] = "flying"
        /\ "ground" \in Members(loads[i].typesData[k].no_damage_from)

C4_AnnotationPresent ==
    \A i \in 1..Len(loads) :
        LevitatingFlier(i)
        => /\ MultiplierOf(DisplayedTable, "Ground") = Zero
           /\ detail.abilityEffectOnGround # null

(***************************************************************************)
(* C4, amended.  For such a creature the final ground multiplier is 0 and  *)
(* abilityEffectOnGround is null: the combined multiplier is already 0, so *)
(* the override does not act and produces no annotation.                   *)
(***************************************************************************)
C4_NoAnnotationWhenAlreadyImmune ==
    \A i \in 1..Len(loads) :
        LevitatingFlier(i)
        => /\ MultiplierOf(DisplayedTable, "Ground") = Zero
           /\ detail.abilityEffectOnGround = null

\* a levitating ground/flying creature has been scored
C4_Witness ==
    \E i \in 1..Len(loads) :
        /\ LevitatingFlier(i)
        /\ Len(loads[i].typesData) = 2
        /\ MultiplierOf(DisplayedTable, "Ground") = Zero

(***************************************************************************)
(* C5.  handleCheckAnswers gives each of the 18 types exactly one result:  *)
(* CORRECT when selected and its multiplier is at least 2, INCORRECT when  *)
(* selected and below 2, MISSED when not selected and at least 2, NONE     *)
(* when not selected and below 2.  A multiplier of 4 counts as super       *)
(* effective; 1, 0.5, 0.25 and 0 never do.                                 *)
(***************************************************************************)
SuperEffective(t) == guesser.correctEffectiveness[t] \in {Two, Four}

C5_CheckResults ==
    guesser.showResults
    => /\ DOMAIN guesser.typeCheckResults = TypeNames
       /\ DOMAIN guesser.correctEffectiveness = TypeNames
       /\ \A t \in TypeNames :
            /\ guesser.correctEffectiveness[t] \in SixValues
            /\ guesser.typeCheckResults[t] =
                 IF t \in guesser.selectedTypes
                 THEN IF SuperEffective(t) THEN "CORRECT" ELSE "INCORRECT"
                 ELSE IF SuperEffective(t) THEN "MISSED" ELSE "NONE"

\* answers checked with a 4x type selected, a 2x type left out and a 1x type selected
C5_Witness ==
    /\ guesser.showResults
    /\ guesser.correctEffectiveness["Ground"] = Four
    /\ guesser.typeCheckResults["Ground"] = "CORRECT"
    /\ guesser.correctEffectiveness["Fire"] = Two
    /\ guesser.typeCheckResults["Fire"] = "MISSED"
    /\ guesser.typeCheckResults["Normal"] = "INCORRECT"
    /\ guesser.typeCheckResults["Water"] = "NONE"

(***************************************************************************)
(* C6.  After handleCheckAnswers, gameWon is true exactly when the set of  *)
(* selected types equals the set of types whose multiplier is at least 2:  *)
(* one wrong selection or one missed type loses, and when no type reaches  *)
(* 2 the empty selection wins.                                             *)
(***************************************************************************)
C6_WonIffExactSet ==
    guesser.showResults
    => (guesser.gameWon <=> guesser.selectedTypes = {t \in TypeNames : SuperEffective(t)})

\* answers checked with nothing selected for a creature that nothing hits for 2x
C6_Witness ==
    /\ guesser.showResults
    /\ guesser.gameWon
    /\ guesser.selectedTypes = {}
    /\ \E t \in TypeNames : guesser.correctEffectiveness[t] = Zero

(***************************************************************************)
(* C7.  Detail cache freshness.  When the page looks up a key (the         *)
(* identifier in lower case) for which a record was stored at time t, the  *)
(* non-preload call at time t' returns the stored record without a request *)
(* for it if t' - t < 5 minutes, and issues a new request if               *)
(* t' - t >= 5 minutes.                                                    *)
(***************************************************************************)
LoadStarted == Len(loads') = Len(loads) + 1

C7_CacheFreshness ==
    [][LoadStarted
        => LET key == toLowerCase(currentPokemonIdentifier)
               run == loads'[Len(loads')]
           IN  key \in DOMAIN pokemonDataCache
                => IF now - pokemonDataCache[key].timestamp < 5 * 60 * 1000
                   THEN /\ run.pc = "awaitSpecies"
                        /\ run.fetchedPokemonData = pokemonDataCache[key].data
                        /\ detail'.pokemonData = Some(pokemonDataCache[key].data)
                        /\ pokemonDataCache' = pokemonDataCache
                   ELSE /\ run.pc = "awaitPokemon"
                        /\ detail'.pokemonData = detail.pokemonData]_vars

\* "Bulbasaur" has been served from the entry stored under "bulbasaur"
\* one millisecond before it expires
C7_Witness ==
    \E i \in 1..Len(loads) :
        /\ loads[i].identifier = "Bulbasaur"
        /\ loads[i].log = "[Cache HIT]"
        /\ loads[i].pc = "awaitSpecies"
        /\ now - pokemonDataCache["bulbasaur"].timestamp = CACHE_EXPIRY_MS - 1

(***************************************************************************)
(* C8.  Every call of fetchPokemonDataByNameOrId, with isPreload false or  *)
(* true, whose key has no cache entry or an entry as old as the expiry     *)
(* window or older, issues a fetch of that key.                            *)
(***************************************************************************)
CallMade == Len(calls') = Len(calls) + 1

RecordCached(id) == \E k \in DOMAIN pokemonDataCache : pokemonDataCache[k].data.id = id

NavFetchIssued(i, pc) == loads[i].pc # pc /\ loads'[i].pc = pc

C9_NeighbourFetchOnlyIfUncached ==
    [][/\ \A i \in 1..Len(loads) :
            LET n == loads'[i].fetchedPokemonData.id
            IN  /\ NavFetchIssued(i, "awaitPrevNav")
                    => (n - 1) \in 1..1025 /\ ~RecordCached(n - 1)
                /\ NavFetchIssued(i, "awaitNextNav")
                    => (n + 1) \in 1..1025 /\ ~RecordCached(n + 1)
       /\ \A p \in preloads' \ preloads : p.key \notin DOMAIN pokemonDataCache]_vars

(***************************************************************************)
(* C10.  A neighbour fetch that fails is never surfaced.  A nav-info       *)
(* lookup that returns without a link leaves error, pokemonData,           *)
(* typeEffectiveness and the cache as they were and starts no preload; the *)
(* load goes on, and when it ends isLoading is false.  A preload fetch     *)
(* that settles touches nothing of the page, and the only cache entry it   *)
(* can add is a fetched record under its own key.                          *)
(***************************************************************************)
NavSettledWithoutLink(i) ==
    \/ /\ loads[i].pc = "awaitPrevNav"
       /\ loads'[i].pc \in {"awaitNextNav", "done"}
       /\ detail'.prevPokemonLink = None
    \/ /\ loads[i].pc = "awaitNextNav"
       /\ loads'[i].pc = "done"
       /\ detail'.nextPokemonLink = None

PreloadSettled(p) == p \in preloads /\ p \notin preloads'

C10_NeighbourFailureSwallowed ==
    [][/\ \A i \in 1..Len(loads) :
            /\ loads[i].pc \in {"awaitPrevNav", "awaitNextNav"} /\ loads'[i].pc # loads[i].pc
                => /\ loads'[i].pc \in {"awaitNextNav", "done"}
                   /\ loads'[i].pc = "done" => ~detail'.isLoading
            /\ NavSettledWithoutLink(i)
                => /\ detail'.error = detail.error
                   /\ detail'.pokemonData = detail.pokemonData
                   /\ detail'.typeEffectiveness = detail.typeEffectiveness
                   /\ detail'.prevPokemonLink = detail.prevPokemonLink
                   /\ detail'.nextPokemonLink = detail.nextPokemonLink
                   /\ pokemonDataCache' = pokemonDataCache
                   /\ preloads' = preloads
       /\ \A p \in preloads :
            PreloadSettled(p)
                => /\ detail' = detail
                   /\ loads' = loads
                   /\ \/ pokemonDataCache' = pokemonDataCache
                      \/ /\ DOMAIN pokemonDataCache' = DOMAIN pokemonDataCache \cup {p.key}
                         /\ pokemonDataCache'[p.key].data.name = p.key
                         /\ \A k \in DOMAIN pokemonDataCache \ {p.key} :
                                pokemonDataCache'[k] = pokemonDataCache[k]]_vars

\* the load of ivysaur has ended after both neighbour lookups failed
C10_Witness ==
    /\ Len(loads) = 1
    /\ loads[1].pc = "done"
    /\ loads[1].fetchedPokemonData.id = 2
    /\ detail.prevPokemonLink = None
    /\ detail.nextPokemonLink = None
    /\ detail.error = null
    /\ ~detail.isLoading
    /\ detail.pokemonData # None
    /\ DOMAIN pokemonDataCache = {"ivysaur"}
    /\ preloads = {}

(***************************************************************************)
(* C11.  startNewGame ends after at most 5 creature-selection attempts.    *)
(* Every failed attempt (404, another non-success status, a creature       *)
(* without sprite, a rejected fetch, a failed type-relation fetch) adds    *)
(* one to the count; the run ends either with the creature and its table   *)
(* stored, isLoading false and error null, or, only after the 5th failed   *)
(* attempt, with error set and isLoading false; and it does end.           *)
(***************************************************************************)
GameSucceeded(g) ==
    /\ guesser.currentPokemon = Some(games[g].data)
    /\ \A t \in TypeNames :
            guesser.correctEffectiveness[t] =
                ProductOfFactors(games[g].defendingTypesDetails, toLowerCase(t),
                                 Len(games[g].defendingTypesDetails))
    /\ ~guesser.isLoading
    /\ guesser.error = null

AttemptsBounded ==
    \A g \in 1..Len(games) :
        /\ games[g].attempts \in 0..5
        /\ games[g].pc # "done" => games[g].attempts < 5
        /\ (g = Len(games) /\ games[g].pc = "done")
            => IF games[g].attempts = 5
               THEN guesser.error # null /\ ~guesser.isLoading
               ELSE GameSucceeded(g)

GameAdvanced(g) ==
    \/ games[g].pc = "awaitPokemon" /\ games'[g].pc = "awaitTypes"
    \/ games[g].pc = "awaitTypes" /\ games'[g].pc = "done" /\ ~guesser'.isLoading
            /\ guesser'.error = null

FailuresCounted ==
    \A g \in 1..Len(games) :
        (games[g].pc # "done" /\ games'[g] # games[g] /\ ~GameAdvanced(g))
            => games'[g].attempts = games[g].attempts + 1

C11_StartNewGameTerminates ==
    /\ []AttemptsBounded
    /\ [][FailuresCounted]_vars
    /\ \A g \in 1..MaxGames :
            (Len(games) >= g) ~> (Len(games) >= g /\ games[g].pc = "done")

\* a run has given up after its fifth failed attempt
C11_Witness ==
    /\ games # <<>>
    /\ games[Len(games)].pc = "done"
    /\ games[Len(games)].attempts = 5
    /\ guesser.error # null
    /\ ~guesser.isLoading

(***************************************************************************)
(* C12.  If the relation data of a defending type cannot be fetched, no    *)
(* table computed without it is stored.  On the detail page                *)
(* fetchPageSpecificDetails sets error and leaves typeEffectiveness as it  *)
(* was; in the guesser correctEffectiveness is left as it was and the      *)
(* attempt counts as failed.  Whenever either table is stored, it holds    *)
(* the contribution of every defending type of its creature.               *)
(***************************************************************************)
DetailTypesFailed(i) ==
    /\ loads[i].pc = "awaitTypes"
    /\ loads'[i].pc # "awaitTypes"
    /\ loads'[i].typesData = <<>>

GuesserTypesFailed(g) ==
    /\ games[g].pc = "awaitTypes"
    /\ games'[g] # games[g]
    /\ games'[g].defendingTypesDetails = <<>>

C12_NoPartialTable ==
    [][/\ \A i \in 1..Len(loads) :
            DetailTypesFailed(i)
                => /\ detail'.error # null
                   /\ detail'.typeEffectiveness = detail.typeEffectiveness
                   /\ detail'.abilityEffectOnGround = detail.abilityEffectOnGround
       /\ detail'.typeEffectiveness # detail.typeEffectiveness
            => \E i \in 1..Len(loads) :
                /\ loads[i].pc = "awaitTypes"
                /\ Len(loads'[i].typesData) = Len(loads[i].fetchedPokemonData.types)
                /\ \A t \in TypeNames \ {"Ground"} :
                        MultiplierOf(detail'.typeEffectiveness[1], t) =
                            CombinedProduct(loads'[i].typesData, toLowerCase(t),
                                            Len(loads[i].fetchedPokemonData.types))
       /\ \A g \in 1..Len(games) :
            GuesserTypesFailed(g)
                => /\ guesser'.correctEffectiveness = guesser.correctEffectiveness
                   /\ games'[g].attempts = games[g].attempts + 1
                   /\ games'[g].pc = "done" => guesser'.error # null
       /\ guesser'.correctEffectiveness # guesser.correctEffectiveness
            => \E g \in 1..Len(games) :
                /\ games[g].pc = "awaitTypes"
                /\ Len(games'[g].defendingTypesDetails) = Len(games[g].data.types)
                /\ \A t \in TypeNames :
                        guesser'.correctEffectiveness[t] =
                            ProductOfFactors(games'[g].defendingTypesDetails, toLowerCase(t),
                                             Len(games[g].data.types))]_vars

\* the type fetch of a two-type creature has failed on the detail page:
\* the error is set and no table is shown
C12_Witness ==
    \E i \in 1..Len(loads) :
        /\ loads[i].pc \in {"awaitPrevNav", "awaitNextNav", "done"}
        /\ Len(loads[i].fetchedPokemonData.types) = 2
        /\ loads[i].typesData = <<>>
        /\ detail.error = "Failed to load some details: type data"
        /\ detail.typeEffectiveness = None

(***************************************************************************)
(* C13.  When the detail fetch for the requested identifier fails and no   *)
(* fresh cache entry exists, loadCurrentPokemonAndPreloadNeighbors ends    *)
(* with error set and isLoading false, issues no species, type or          *)
(* neighbour fetch, and adds no entry to the detail cache.                 *)
(***************************************************************************)
DetailFetchFailed(i) ==
    /\ loads[i].pc = "awaitPokemon"
    /\ loads'[i] # loads[i]
    /\ loads'[i].fetchedPokemonData = NoPokemonData

C13_DetailFailureSurfaced ==
    [][\A i \in 1..Len(loads) :
            DetailFetchFailed(i)
                => /\ loads'[i].pc = "done"
                   /\ detail'.error # null
                   /\ ~detail'.isLoading
                   /\ detail'.pokemonData = detail.pokemonData
                   /\ pokemonDataCache' = pokemonDataCache
                   /\ preloads' = preloads]_vars

\* the second load has failed on a key whose cache entry had expired
C13_Witness ==
    /\ Len(loads) = 2
    /\ loads[2].pc = "done"
    /\ loads[2].fetchedPokemonData = NoPokemonData
    /\ loads[2].identifier # ""
    /\ toLowerCase(loads[2].identifier) \in DOMAIN pokemonDataCache
    /\ now - pokemonDataCache[toLowerCase(loads[2].identifier)].timestamp >= CACHE_EXPIRY_MS
    /\ detail.error # null
    /\ ~detail.isLoading

(***************************************************************************)
(* C14.  fetchPokemonBatch tolerates member failures: whichever members'   *)
(* detail requests fail, it returns exactly the members that succeeded,    *)
(* in ascending order of id, and does not throw; it throws only when the   *)
(* list request of the batch fails, and then the caller reports the error. *)
(***************************************************************************)
Ascending(list) == \A j, k \in 1..Len(list) : j < k => list[j].id < list[k].id

BatchTolerant(batch) ==
    /\ batch.threw <=> ~batch.listOk
    /\ ~batch.threw =>
        /\ MembersOf(batch.returned) =
                {SimplePokemon(id) : id \in batch.succeeded \cap MembersOf(batch.listed)}
        /\ Len(batch.returned) = Cardinality(batch.succeeded)
        /\ Ascending(batch.returned)

BatchThrew(l) ==
    /\ listLoads'[l].batch # None
    /\ listLoads'[l].batch[1].threw
    /\ listLoads'[l] # listLoads[l]

C14_BatchToleratesMembers ==
    /\ [](\A l \in 1..Len(listLoads) :
            listLoads[l].batch # None => BatchTolerant(listLoads[l].batch[1]))
    /\ [][\A l \in 1..Len(listLoads) :
            BatchThrew(l) => listPage'.error # null /\ listLoads'[l].pc = "done"]_vars

\* a batch whose list came in descending order and lost one member has
\* been returned
C14_Witness ==
    \E l \in 1..Len(listLoads) :
        /\ listLoads[l].batch # None
        /\ LET batch == listLoads[l].batch[1]
           IN  /\ Len(batch.listed) = 2
               /\ batch.listed[1] > batch.listed[2]
               /\ Cardinality(batch.succeeded) = 1
               /\ Len(batch.returned) = 1
               /\ ~batch.threw

(***************************************************************************)
(* C15.  For the complete list and for the minimal list of the search, a   *)
(* stored entry {timestamp, data} is used in place of a network fetch if   *)
(* and only if now - timestamp is less than 24 hours; an entry found with  *)
(* now - timestamp of 24 hours or more is removed from storage and the     *)
(* list is fetched again.                                                  *)
(***************************************************************************)
TwentyFourHours == 24 * 60 * 60 * 1000

\* invocation number n of a loader has just begun
Begun(invocations, n) == Len(invocations) = n - 1

StoredEntryDecides(key, invocation, shown) ==
    LET entry == localStorage[key]
    IN  /\ (entry # None /\ now - entry[1].timestamp < TwentyFourHours)
            => /\ invocation.pc = "done"
               /\ shown = entry[1].data
               /\ localStorage' = localStorage
        /\ (entry # None /\ now - entry[1].timestamp >= TwentyFourHours)
            => /\ invocation.pc = "awaitList"
               /\ localStorage'[key] = None
        /\ invocation.pc = "done"
            => entry # None /\ now - entry[1].timestamp < TwentyFourHours

C15_StoredListsFreshFor24Hours ==
    [][/\ \A n \in 1..Len(listLoads') :
            Begun(listLoads, n)
                => StoredEntryDecides(CACHE_KEY_COMPLETE_LIST, listLoads'[n],
                                      listPage'.allPokemon)
       /\ \A n \in 1..Len(minimalLoads') :
            Begun(minimalLoads, n)
                => StoredEntryDecides(CACHE_KEY_MINIMAL_LIST, minimalLoads'[n],
                                      context'.minimalPokemonList)]_vars

\* a complete list stored 24 hours ago has been found, removed and is
\* being fetched again
C15_Witness ==
    \E l \in 1..Len(listLoads) :
        /\ listLoads[l].log = "Complete list cache expired."
        /\ listLoads[l].pc = "awaitList"
        /\ listLoads[l].currentOffset = 0
        /\ localStorage[CACHE_KEY_COMPLETE_LIST] = None
        /\ now = TwentyFourHours

(***************************************************************************)
(* C16.  Lookups of one key are not deduplicated.  A call of               *)
(* fetchPokemonDataByNameOrId that begins while the key is absent from     *)
(* the cache issues a network request, whether or not another request for  *)
(* the key is in flight; each request that resolves successfully leaves    *)
(* one entry for the key, with the data and the time of that request, so   *)
(* the entry is that of the request that resolved last; and each caller    *)
(* receives a record of the key.                                           *)
(***************************************************************************)
KeyOf(c) == toLowerCase(calls'[c].identifier)

Resolved(c) ==
    /\ calls[c].pc = "awaitFetch"
    /\ calls'[c].pc = "returned"
    /\ calls'[c].result # None

C16_ConcurrentLookupsBothFetch ==
    [][/\ \A c \in 1..Len(calls') :
            (Begun(calls, c) /\ KeyOf(c) \notin DOMAIN pokemonDataCache)
                => calls'[c].pc = "awaitFetch" /\ calls'[c].fetched
       /\ \A c \in 1..Len(calls) :
            Resolved(c)
                => /\ DOMAIN pokemonDataCache' = DOMAIN pokemonDataCache \cup {KeyOf(c)}
                   /\ pokemonDataCache'[KeyOf(c)] =
                        [data |-> calls'[c].result[1], timestamp |-> now]
                   /\ calls'[c].result[1].id = IdOfKey(KeyOf(c))
                   /\ \A k \in DOMAIN pokemonDataCache :
                        k # KeyOf(c) => pokemonDataCache'[k] = pokemonDataCache[k]]_vars

\* two direct calls for one key were both in flight, both have returned,
\* with different records, and the entry is that of the first call, which
\* resolved last
C16_Witness ==
    /\ Len(calls) >= 2
    /\ calls[1].identifier = "Bulbasaur" /\ calls[2].identifier = "bulbasaur"
    /\ ~calls[1].isPreload /\ ~calls[2].isPreload
    /\ calls[1].fetched /\ calls[2].fetched
    /\ calls[1].pc = "returned" /\ calls[2].pc = "returned"
    /\ calls[1].result # None /\ calls[2].result # None
    /\ calls[1].result # calls[2].result
    /\ now = 0
    /\ DOMAIN pokemonDataCache = {"bulbasaur"}
    /\ pokemonDataCache["bulbasaur"].data = calls[1].result[1]

(***************************************************************************)
(* C17.  A preload detail fetch that is still in flight when the visitor   *)
(* navigates to another creature, and that resolves afterwards, changes    *)
(* nothing but the cache entry of its own key: pokemonData,                *)
(* typeEffectiveness, error, isLoading and the prev/next links of the      *)
(* page now displayed stay as they are.                                    *)
(***************************************************************************)
\* the visitor has left the creature whose load issued preload p
NavigatedSince(p) == p.load < Len(loads) \/ effectPending

LatePreloadResolved(p) == p \in preloads /\ p \notin preloads' /\ NavigatedSince(p)

C17_LatePreloadTouchesOnlyItsEntry ==
    [][\A p \in preloads :
            LatePreloadResolved(p)
                => /\ detail'.pokemonData = detail.pokemonData
                   /\ detail'.typeEffectiveness = detail.typeEffectiveness
                   /\ detail'.error = detail.error
                   /\ detail'.isLoading = detail.isLoading
                   /\ detail'.prevPokemonLink = detail.prevPokemonLink
                   /\ detail'.nextPokemonLink = detail.nextPokemonLink
                   /\ currentPokemonIdentifier' = currentPokemonIdentifier
                   /\ effectPending' = effectPending
                   /\ \A k \in DOMAIN pokemonDataCache :
                        /\ k \in DOMAIN pokemonDataCache'
                        /\ k # p.key => pokemonDataCache'[k] = pokemonDataCache[k]
                   /\ DOMAIN pokemonDataCache' \subseteq DOMAIN pokemonDataCache \cup {p.key}]_vars

\* the second load, for Ivysaur, missed the cache and still waits for its
\* record, while the preload of ivysaur issued by the first load has
\* resolved and stored a fresh entry
C17_Witness ==
    /\ Len(loads) = 2
    /\ loads[2].identifier = "Ivysaur"
    /\ loads[2].log = "[Cache MISS or EXPIRED]"
    /\ loads[2].pc = "awaitPokemon"
    /\ "ivysaur" \in DOMAIN pokemonDataCache
    /\ now - pokemonDataCache["ivysaur"].timestamp < CACHE_EXPIRY_MS
    /\ detail.isLoading
    /\ \A p \in preloads : p.key # "ivysaur"

(***************************************************************************)
(* C18.  Order of a detail page load for creature n: no neighbour fetch    *)
(* is issued before the record of n has been obtained and stored in        *)
(* pokemonData, and the neighbour fetches do not block: the load of n      *)
(* finishes, with isLoading false, without waiting for any neighbour       *)
(* fetch to resolve.                                                       *)
(***************************************************************************)
NeighbourFetchInFlight ==
    \/ \E i \in 1..Len(loads) : loads[i].pc \in {"awaitPrevNav", "awaitNextNav"}
    \/ preloads # {}

RecordStored ==
    \E i \in 1..Len(loads) :
        /\ loads[i].fetchedPokemonData # NoPokemonData
        /\ detail.pokemonData = Some(loads[i].fetchedPokemonData)

C18_NeighbourFetchesDoNotBlock ==
    /\ [](NeighbourFetchInFlight => RecordStored)
    /\ (loads # <<>>) ~> ~detail.isLoading

(***************************************************************************)
(* C19.  The stored complete list is created only by a successful load:    *)
(* loadAllSequentially writes the list to localStorage only if no batch    *)
(* error occurred during that load and the loaded list is not empty; a     *)
(* load that stopped on a batch error, with a partial list, writes         *)
(* nothing.                                                                *)
(***************************************************************************)
Finishing(l) == listLoads[l].pc \in {"awaitList", "awaitMembers"} /\ listLoads'[l].pc = "done"

CompleteListStored ==
    /\ localStorage'[CACHE_KEY_COMPLETE_LIST] # None
    /\ localStorage'[CACHE_KEY_COMPLETE_LIST] # localStorage[CACHE_KEY_COMPLETE_LIST]

C19_OnlySuccessfulLoadIsStored ==
    [][/\ CompleteListStored
            => \E l \in 1..Len(listLoads) :
                /\ Finishing(l)
                /\ ~listLoads'[l].batch[1].threw
                /\ Len(listLoads'[l].currentPokemonList) > 0
                /\ localStorage'[CACHE_KEY_COMPLETE_LIST][1].data =
                        listLoads'[l].currentPokemonList
       /\ \A l \in 1..Len(listLoads) :
            (Finishing(l) /\ listLoads'[l].batch[1].threw)
                => localStorage' = localStorage]_vars

(***************************************************************************)
(* C20.  In the list view, whenever no load step and no effect is          *)
(* pending, filteredPokemon equals allPokemon if the search term is        *)
(* empty, and otherwise is exactly the entries of allPokemon, in the same  *)
(* order, whose lowercased name contains the lowercased search term or     *)
(* whose decimal id contains it: after any interleaving of edits of the    *)
(* search term with batch completions, also when the load ends on an       *)
(* empty batch or on a batch error.                                        *)
(***************************************************************************)
Quiescent ==
    /\ effectsFlushed
    /\ \A l \in 1..Len(listLoads) : loadSettled(listLoads[l])

Kept(pokemon, searchTerm) ==
    \/ includes(lowerChars(pokemon.name), lowerChars(searchTerm))
    \/ includes(String(pokemon.id), lowerChars(searchTerm))

Expected(list, searchTerm) ==
    IF Len(searchTerm) = 0 THEN list
    ELSE SelectSeq(list, LAMBDA pokemon : Kept(pokemon, searchTerm))

C20_FilteredMatchesSearch ==
    (route = "/" /\ Quiescent)
        => listPage.filteredPokemon = Expected(listPage.allPokemon, listPage.searchTerm)

(***************************************************************************)
(* C21.  Once the answers have been checked (showResults is true), a       *)
(* click on a type changes nothing: selectedTypes, typeCheckResults and    *)
(* gameWon stay as they are until startNewGame is invoked.  While          *)
(* showResults is false, a click on a type toggles the membership of that  *)
(* type in selectedTypes and of no other type.                             *)
(***************************************************************************)
\* a step of the page in which no invocation of startNewGame begins or moves
NoGameStep == games' = games

Toggled(before, after, t) ==
    /\ (t \in after) # (t \in before)
    /\ \A u \in TypeNames : u # t => ((u \in after) <=> (u \in before))

C21_ClicksFrozenAfterCheck ==
    [][/\ (guesser.showResults /\ NoGameStep)
            => /\ guesser'.selectedTypes = guesser.selectedTypes
               /\ guesser'.typeCheckResults = guesser.typeCheckResults
               /\ guesser'.gameWon = guesser.gameWon
               /\ guesser'.showResults
       /\ (~guesser.showResults /\ ~guesser'.showResults /\ NoGameStep
                /\ guesser' # guesser)
            => /\ \E t \in TypeNames :
                    Toggled(guesser.selectedTypes, guesser'.selectedTypes, t)
               /\ guesser' = [guesser EXCEPT !.selectedTypes = guesser'.selectedTypes]]_vars

\* the answers have been checked and won with a selection, and the chips
\* can still be clicked
C21_Witness ==
    /\ guesserRendered
    /\ guesser.showResults
    /\ guesser.gameWon
    /\ guesser.selectedTypes # {}
    /\ ENABLED (\E t \in ClickTypes : handleTypeClick(t))

(***************************************************************************)
(* C22.  In the guesser, in every state where isLoading is false and       *)
(* error is null, correctEffectiveness is the table computed for           *)
(* currentPokemon, so answers are never scored against the table of        *)
(* another creature: also when startNewGame is invoked again while an      *)
(* earlier invocation is in flight, as when the mount effect runs twice    *)
(* under reactStrictMode.                                                  *)
(***************************************************************************)
\* the table calculateEffectiveness computes for a creature from the chart
TableOf(pokemon) ==
    calculatedEffectivenessMap([k \in 1..Len(pokemon.types) |-> TypeChart(pokemon.types[k])])

C22_TableIsOfCurrentPokemon ==
    (route = "/guesser" /\ ~guesser.isLoading /\ guesser.error = null)
        => /\ guesser.currentPokemon # None
           /\ guesser.correctEffectiveness = TableOf(guesser.currentPokemon[1])

(***************************************************************************)
(* C23.  For the same creature (the same defending types and the same      *)
(* abilities) and the same relation records, the table of the guesser and  *)
(* the final table of the detail page give each of the 18 attacking types  *)
(* the same multiplier, so a type is super effective in the quiz exactly   *)
(* when the detail page lists it under 2x or 4x: also for a creature with  *)
(* the ability levitate.  Stated here for relation records that name each  *)
(* type in one list at most, where the two ways of combining agree.        *)
(***************************************************************************)
\* the table the guesser computes from the records the detail page received
GuesserTableFor(i) == calculatedEffectivenessMap(loads[i].typesData)

C23_GuesserAndDetailAgree ==
    \A i \in 1..Len(loads) :
        (DetailCalculated(i) /\ AllDisjoint(loads[i].typesData))
        => \A t \in TypeNames :
            /\ MultiplierOf(DisplayedTable, t) = GuesserTableFor(i)[t]
            /\ isSuperEffective(GuesserTableFor(i), t)
                    <=> MultiplierOf(DisplayedTable, t) \in {Two, Four}

(***************************************************************************)
(* C24.  The list never holds two entries with the same id: after any      *)
(* sequence of batches processed by loadAllSequentially, also batches in   *)
(* which some member requests failed and were dropped, so that the next    *)
(* offset is taken from the shorter list, all ids in allPokemon are        *)
(* pairwise distinct.                                                      *)
(***************************************************************************)
DistinctIds(list) == \A j, k \in 1..Len(list) : j # k => list[j].id # list[k].id

C24_DistinctIds == DistinctIds(listPage.allPokemon)

(***************************************************************************)
(* C28.  At most one execution of loadAllSequentially is in progress at    *)
(* any time: an invocation that starts while another is in progress        *)
(* returns at once, issues no fetch and changes no state; and              *)
(* isLoadingAllPokemonRef is false again whenever no execution is in       *)
(* progress, after a cache hit, after a completed load and after a load    *)
(* stopped by a batch error.                                               *)
(***************************************************************************)
InProgress == {l \in 1..Len(listLoads) : listLoads[l].pc \in {"awaitList", "awaitMembers"}}

BatchProcessed(l) ==
    /\ listLoads[l].pc \in {"awaitList", "awaitMembers"}
    /\ listLoads'[l].batch # listLoads[l].batch

OffsetGrowsOrLoopStops ==
    \A l \in 1..Len(listLoads) :
        /\ BatchProcessed(l)
            => \/ listLoads'[l].pc = "done"
               \/ /\ Len(listLoads'[l].batch[1].returned) > 0
                  /\ listLoads'[l].currentOffset > listLoads[l].currentOffset
                  /\ listLoads'[l].currentOffset < TOTAL_POKEMON_TARGET
        /\ Finishing(l)
            => ~listPage'.isLoadingInitial /\ ~listPage'.isLoadingBackground

C29_LoadTerminates ==
    /\ [][OffsetGrowsOrLoopStops]_vars
    /\ \A l \in 1..MaxListLoads :
            (Len(listLoads) >= l) ~> (Len(listLoads) >= l /\ loadSettled(listLoads[l]))
    /\ [](Quiescent => ~listPage.isLoadingInitial /\ ~listPage.isLoadingBackground)

\* a load has ended on a failed list request after a batch with a dropped
\* member, and nothing is shown as loading
C29_Witness ==
    /\ Quiescent
    /\ listLoads # <<>>
    /\ listLoads[1].pc = "done"
    /\ listLoads[1].batch # None
    /\ listLoads[1].batch[1].threw
    /\ Len(listLoads[1].currentPokemonList) = 1
    /\ ~listPage.isLoadingInitial
    /\ ~listPage.isLoadingBackground

(***************************************************************************)
(* C25.  If loadCurrentPokemonAndPreloadNeighbors is started for           *)
(* identifier A and then, before it finishes, for identifier B on the      *)
(* same component state, then once both runs have finished the displayed   *)
(* pokemonData, typeEffectiveness, abilityEffectOnGround and prev/next     *)
(* links are those of B, in whatever order the responses of the two runs   *)
(* arrive; and at no time after B's record is displayed is the table of A  *)
(* shown with it as final.                                                 *)
(***************************************************************************)
\* the second run began while the first was in flight
Overlapping == Len(loads) = 2 /\ loads[1].identifier # ""

RecordOfB == loads[2].fetchedPokemonData

TableOfB ==
    LET map == effectivenessMap(loads[2].typesData, Len(loads[2].typesData))
    IN  Some(sortedEffectiveness(overriddenMap(map, RecordOfB.abilities)))

AnnotationOfB ==
    abilityAnnotation(effectivenessMap(loads[2].typesData, Len(loads[2].typesData)),
                      RecordOfB.abilities)

LinkOfB(link, id) == link = None \/ link[1].id = id

C25_LastNavigationWins ==
    /\ (Overlapping /\ loads[1].pc = "done" /\ loads[2].pc = "done"
            /\ RecordOfB # NoPokemonData)
        => /\ detail.pokemonData = Some(RecordOfB)
           /\ loads[2].typesData # <<>>
                => /\ detail.typeEffectiveness = TableOfB
                   /\ detail.abilityEffectOnGround = AnnotationOfB
           /\ LinkOfB(detail.prevPokemonLink, RecordOfB.id - 1)
           /\ LinkOfB(detail.nextPokemonLink, RecordOfB.id + 1)
    /\ (Overlapping /\ RecordOfB # NoPokemonData /\ detail.pokemonData = Some(RecordOfB)
            /\ ~detail.isLoading /\ detail.typeEffectiveness # None)
        => /\ loads[2].typesData # <<>>
           /\ detail.typeEffectiveness = TableOfB

\* C26: the background never shows more than MAX_SPRITES_ON_SCREEN sprites,
\* also when sprite fetches started by earlier interval callbacks return
\* after the length check that admitted them.
C26_SpritesWithinMax == Len(background.sprites) <= MAX_SPRITES_ON_SCREEN

\* C27: the header keeps at most SuggestionLimit suggestions and its active
\* index is -1 or an index of the suggestions, after any sequence of edits,
\* minimal-list loads, key presses and clicks; ArrowDown and ArrowUp stay
\* within the indices of the suggestions.
C27_ActiveIndexValid ==
    /\ [](/\ Len(header.suggestions) <= SuggestionLimit
          /\ header.activeIndex \in {-1} \cup (0..(Len(header.suggestions) - 1)))
    /\ [][\A key \in {"ArrowDown", "ArrowUp"} :
            (handleKeyDown(key) /\ header.isSearchFocused /\ Len(header.suggestions) > 0)
                => /\ header'.activeIndex \in 0..(Len(header'.suggestions) - 1)
                   /\ header'.suggestions = header.suggestions
                   /\ (key = "ArrowDown" /\ header.activeIndex = Len(header.suggestions) - 1)
                        => header'.activeIndex = 0
                   /\ (key = "ArrowUp" /\ header.activeIndex = 0)
                        => header'.activeIndex = Len(header.suggestions) - 1]_vars

\* the list is cut to SuggestionLimit entries and ArrowUp has wrapped to the last
C27_Witness ==
    /\ route = "PokedexProvider"
    /\ Len(header.suggestions) = SuggestionLimit
    /\ Len(suggested(header.searchTerm, SuggestionLimit + 1)) > SuggestionLimit
    /\ header.activeIndex = SuggestionLimit - 1

====
